---- MODULE Spec2Model ----
(***************************************************************************)
(* A model of the BEVE codec of beve-js: the Writer, the compressed size   *)
(* scheme (writeCompressed / read_compressed), the encoder (write_value),  *)
(* the decoder (read_value), the extension encoders and decoders, and the  *)
(* choice between the WASM and the TypeScript codec (index.ts over         *)
(* wasm-loader.ts).                                                        *)
(*                                                                         *)
(* Conventions.  A byte is a number in 0..255.  Numbers wider than the     *)
(* 32-bit integers of TLC (sizes up to 2^62, 64-bit payloads, doubles)     *)
(* are computed as little-endian bit sequences (bit 1 is 2^0) and kept as  *)
(* little-endian byte sequences.  A JS number with an integral value is    *)
(* [t |-> "num", k |-> "int", neg, mag], mag the bytes of its magnitude    *)
(* without leading zero bytes (-0 is neg with mag <<>>); every other JS    *)
(* number is [t |-> "num", k |-> "f64", bytes], its 8 IEEE bytes.  A       *)
(* thrown exception is the field thrown # "none".                          *)
(***************************************************************************)
EXTENDS Integers, Sequences, FiniteSets, TLC

\* the codec: the step reached, the value or call at hand, the Writer, the
\* buffer decoded and what the last call returned or threw
VARIABLES pc, input, writer, buffer, result

\* the module state of index.ts
VARIABLES wasmInitialized, wasmInitPromise, cachedWasmModule, wasmDisabled

\* the environment and the module state of wasm-loader.ts
VARIABLES hasWasmSupport, isNode, wasmModule, wasmLoadAttempted, wasmLoadError

\* the asynchronous calls: getWasmModule() invocations, initWasm() promises,
\* the calls of the client, and what the WASM module answered per input
VARIABLES gets, inits, calls, wasmReplies

indexVars == <<wasmInitialized, wasmInitPromise, cachedWasmModule, wasmDisabled>>

loaderVars == <<hasWasmSupport, isNode, wasmModule, wasmLoadAttempted, wasmLoadError>>

backendVars == <<indexVars, loaderVars, gets, inits, calls, wasmReplies>>

vars == <<pc, input, writer, buffer, result, backendVars>>

\* the module state before anything of index.ts or wasm-loader.ts has run:
\* the codec functions are imported from encoder.ts and decoder.ts directly
NoBackend ==
    /\ wasmInitialized = FALSE
    /\ wasmInitPromise = 0
    /\ cachedWasmModule = "null"
    /\ wasmDisabled = FALSE
    /\ hasWasmSupport = TRUE
    /\ isNode = TRUE
    /\ wasmModule = "null"
    /\ wasmLoadAttempted = FALSE
    /\ wasmLoadError = "null"
    /\ gets = <<>>
    /\ inits = <<>>
    /\ calls = <<>>
    /\ wasmReplies = {}

----------------------------------------------------------------------------
(* Bit sequences *)

RECURSIVE NatBits(_)
NatBits(n) == IF n = 0 THEN <<>> ELSE <<n % 2>> \o NatBits(n \div 2)

RECURSIVE BitsNat(_)
BitsNat(b) == IF b = <<>> THEN 0 ELSE b[1] + 2 * BitsNat(Tail(b))

RECURSIVE Trim(_)
Trim(b) ==
    IF b = <<>> THEN <<>>
    ELSE IF b[Len(b)] = 0 THEN Trim(SubSeq(b, 1, Len(b) - 1)) ELSE b

Zeros(n) == [i \in 1..n |-> 0]

\* the low w bits of b, zero-extended to exactly w bits
Pad(b, w) == [i \in 1..w |-> IF i <= Len(b) THEN b[i] ELSE 0]

\* b >> n
Shr(b, n) == IF Len(b) <= n THEN <<>> ELSE SubSeq(b, n + 1, Len(b))

\* b << n
Shl(b, n) == IF b = <<>> THEN <<>> ELSE Zeros(n) \o b

Pow2(k) == Zeros(k) \o <<1>>

\* 2^k - 1
AllOnes(k) == [i \in 1..k |-> 1]

\* b + 1
RECURSIVE Incr(_)
Incr(b) ==
    IF b = <<>> THEN <<1>>
    ELSE IF b[1] = 0 THEN <<1>> \o Tail(b) ELSE <<0>> \o Incr(Tail(b))

\* 2^w - b for 0 < b <= 2^w, as w bits: the two's complement of b
Negate(b, w) == Pad(Incr([i \in 1..w |-> 1 - Pad(b, w)[i]]), w)

AllZero(b) == \A i \in 1..Len(b) : b[i] = 0

\* the n bytes, little-endian, of the low 8n bits of b
BytesOf(b, n) == [j \in 1..n |-> BitsNat(SubSeq(Pad(b, 8 * n), 8 * j - 7, 8 * j))]

RECURSIVE BitsOfBytes(_)
BitsOfBytes(bs) ==
    IF bs = <<>> THEN <<>> ELSE Pad(NatBits(bs[1]), 8) \o BitsOfBytes(Tail(bs))

----------------------------------------------------------------------------
(* JS numbers *)

\* the bytes of a bit sequence, without leading zero bytes
MagBytes(bits) == BytesOf(Trim(bits), (Len(Trim(bits)) + 7) \div 8)

JSNat(bits) == [t |-> "num", k |-> "int", neg |-> FALSE, mag |-> MagBytes(bits)]

JSNeg(bits) == [t |-> "num", k |-> "int", neg |-> TRUE, mag |-> MagBytes(bits)]

JSInt(n) == IF n < 0 THEN JSNeg(NatBits(0 - n)) ELSE JSNat(NatBits(n))

\* the magnitude of an integral v as bits, without leading zeros
Mag(v) == Trim(BitsOfBytes(v.mag))

Undefined == [t |-> "undefined"]

Null == [t |-> "null"]

IsNumber(v) == v.t = "num"

\* Number.isInteger(v)
IsInteger(v) == v.t = "num" /\ v.k = "int"

\* v < 0 for an integral v (false for -0)
IsNegative(v) == v.neg /\ v.mag # <<>>

\* 0 <= v <= 2^k - 1 for an integral v
InUnsigned(v, k) == ~IsNegative(v) /\ Len(Mag(v)) <= k

\* |v| <= 2^k for an integral v
MagLeqPow2(v, k) == Len(Mag(v)) <= k \/ Mag(v) = Pow2(k)

\* ToInt32 of a 32-bit pattern
Int32OfBits(b) ==
    IF Pad(b, 32)[32] = 1 THEN JSNeg(Negate(Pad(b, 32), 32)) ELSE JSNat(Pad(b, 32))

\* the w-bit two's complement pattern of an integral v
TwosComplement(v, w) == IF IsNegative(v) THEN Negate(Mag(v), w) ELSE Pad(Mag(v), w)

\* Number(n) for a non-negative bigint n: round to 53 significant bits,
\* ties to even
RoundToDouble(mag) ==
    IF Len(mag) <= 53 THEN mag
    ELSE LET d == Len(mag) - 53
             low == SubSeq(mag, 1, d)
             hi == SubSeq(mag, d + 1, Len(mag))
             half == low[d] = 1 /\ AllZero(SubSeq(low, 1, d - 1))
             above == low[d] = 1 /\ ~AllZero(SubSeq(low, 1, d - 1))
             up == above \/ (half /\ hi[1] = 1)
         IN Zeros(d) \o (IF up THEN Incr(hi) ELSE hi)

----------------------------------------------------------------------------
(* Writer *)

DefaultWriterSize == 256

\* A Writer {buffer, offset}.  Every write of the code is at offset and
\* advances offset, so the bytes of buffer past offset are the zeros of its
\* allocation: the model keeps the bytes before offset (data) and the
\* allocated length (capacity), and thrown for an exception in flight.
NewWriter(size) == [data |-> <<>>, capacity |-> size, offset |-> 0, thrown |-> "none"]

Throw(w, msg) == [w EXCEPT !.thrown = msg]

\* a growth by doubling alone, whatever the size asked for
ensureCapacityDoubling(w, size) ==
    IF w.thrown # "none" THEN w
    ELSE IF w.offset + size > w.capacity
    THEN [w EXCEPT !.capacity = w.capacity * 2]
    ELSE w

\* newBuffer.set(this.buffer) keeps the bytes; only the length changes
ensureCapacity(w, size) ==
    IF w.thrown # "none" THEN w
    ELSE IF w.offset + size > w.capacity
    THEN [w EXCEPT !.capacity = (w.capacity + size) * 2]
    ELSE w

\* a write of bytes at offset (buffer.set or a DataView setter), then
\* offset += bytes.length; past the allocated length the write throws
PutBytes(w, bytes) ==
    IF w.thrown # "none" THEN w
    ELSE IF w.offset + Len(bytes) > w.capacity
    THEN Throw(w, "RangeError: offset is out of bounds")
    ELSE [w EXCEPT !.data = SubSeq(w.data, 1, w.offset) \o bytes,
                   !.offset = w.offset + Len(bytes)]

append_uint8(w, value) ==
    IF w.thrown # "none" THEN w
    ELSE IF IsInteger(value) /\ InUnsigned(value, 8)
    THEN PutBytes(ensureCapacity(w, 1), BytesOf(Mag(value), 1))
    ELSE Throw(w, "Value must be an integer between 0 and 255")

append_uint16(w, value) ==
    IF w.thrown # "none" THEN w
    ELSE IF IsInteger(value) /\ InUnsigned(value, 16)
    THEN PutBytes(ensureCapacity(w, 2), BytesOf(Mag(value), 2))
    ELSE Throw(w, "Value must be an integer between 0 and 65535")

append_uint32(w, value) ==
    IF w.thrown # "none" THEN w
    ELSE IF IsInteger(value) /\ InUnsigned(value, 32)
    THEN PutBytes(ensureCapacity(w, 4), BytesOf(Mag(value), 4))
    ELSE Throw(w, "Value must be an integer between 0 and 4294967295")

\* the bound 18446744073709551615 is the double 2^64; low and high are each
\* stored by setUint32, which keeps the low 32 bits
append_uint64(w, value) ==
    IF w.thrown # "none" THEN w
    ELSE IF IsInteger(value) /\ ~IsNegative(value) /\ MagLeqPow2(value, 64)
    THEN LET high == Shr(Mag(value), 32)
             low == Pad(Mag(value), 32)
         IN PutBytes(ensureCapacity(w, 8), BytesOf(low, 4) \o BytesOf(high, 4))
    ELSE Throw(w, "Value must be an integer between 0 and 18446744073709551615")

\* buffer.slice(0, offset)
Written(w) == SubSeq(w.data, 1, w.offset)

----------------------------------------------------------------------------
(* The compressed size scheme *)

\* N < 2^k as the code's comparison decides it for an integral N
LtPow2(N, k) == IsNegative(N) \/ Len(Mag(N)) <= k

\* (N << 2) | tag in 32-bit signed arithmetic
ShiftOrTag(N, tagbits) == Int32OfBits(tagbits \o Pad(TwosComplement(N, 32), 30))

writeCompressed(w, N) ==
    IF w.thrown # "none" THEN w
    ELSE IF LtPow2(N, 6)
    THEN append_uint8(w, ShiftOrTag(N, <<0, 0>>))
    ELSE IF LtPow2(N, 14)
    THEN append_uint16(w, ShiftOrTag(N, <<1, 0>>))
    ELSE IF LtPow2(N, 30)
    THEN append_uint32(w, ShiftOrTag(N, <<0, 1>>))
    ELSE IF LtPow2(N, 62)
    THEN PutBytes(ensureCapacity(w, 8), BytesOf(<<1, 1>> \o Pad(Mag(N), 62), 8))
    ELSE w

----------------------------------------------------------------------------
(* Buffers read by the decoder: a Uint8Array is a view of length bytes at  *)
(* byteOffset into its ArrayBuffer ab; indices are 0-based as in the code. *)

View(bytes) == [ab |-> bytes, byteOffset |-> 0, length |-> Len(bytes)]

\* buffer[i] for an index inside the view
Byte(buf, i) == buf.ab[buf.byteOffset + i + 1]

\* buffer[i] inside a bit operation: an index outside the view reads
\* undefined, which the operation takes as 0
ByteOr0(buf, i) == IF i >= 0 /\ i < buf.length THEN Byte(buf, i) ELSE 0

\* buffer.subarray(from, to) / buffer.slice(from, to): clamped to the view
SubBytes(buf, from, to) ==
    LET f == IF from > buf.length THEN buf.length ELSE from
        e == IF to > buf.length THEN buf.length ELSE to
    IN IF e <= f THEN <<>>
       ELSE [i \in 1..(e - f) |-> Byte(buf, f + i - 1)]

\* the n bytes a DataView made at byte offset off of the ArrayBuffer reads
ViewBytes(ab, off, n) == [i \in 1..n |-> ab[off + i]]

Ret(val, cur) == [thrown |-> "none", val |-> val, cur |-> cur]

Raise(msg, cur) == [thrown |-> msg, val |-> Undefined, cur |-> cur]

read_compressed(buf, cur) ==
    IF cur >= buf.length
    THEN Raise("Buffer overflow: trying to read compressed value beyond buffer end", cur)
    ELSE LET header == Byte(buf, cur)
             type == header % 4
             c == cur + 1
         IN CASE type = 0 -> Ret(JSInt(header \div 4), c)
              [] type = 1 ->
                   IF c + 1 > buf.length
                   THEN Raise("Buffer overflow: not enough data for compressed value type 1", c)
                   ELSE Ret(JSNat(Pad(Shr(BitsOfBytes(<<header, Byte(buf, c)>>), 2), 14)),
                            c + 1)
              [] type = 2 ->
                   IF c + 3 > buf.length
                   THEN Raise("Buffer overflow: not enough data for compressed value type 2", c)
                   ELSE Ret(JSNat(Pad(Shr(BitsOfBytes(<<header, Byte(buf, c),
                                        Byte(buf, c + 1), Byte(buf, c + 2)>>), 2), 30)),
                            c + 3)
              [] OTHER ->
                   IF c + 7 > buf.length
                   THEN Raise("Buffer overflow: not enough data for compressed value type 3", c)
                   ELSE LET start == c - 1
                            big == BitsOfBytes(ViewBytes(buf.ab, buf.byteOffset + start, 8))
                        IN Ret(JSNat(RoundToDouble(Trim(Shr(big, 2)))), c + 7)

----------------------------------------------------------------------------
(* IEEE doubles: DataView.getFloat64 / setFloat64 / getFloat32 *)

F64(bytes) == [t |-> "num", k |-> "f64", bytes |-> bytes]

NaN == F64(<<0, 0, 0, 0, 0, 0, 248, 127>>)

PosInfinity == F64(<<0, 0, 0, 0, 0, 0, 240, 127>>)

NegInfinity == F64(<<0, 0, 0, 0, 0, 0, 240, 255>>)

\* the JS number 8 little-endian IEEE bytes denote: an integral value is an
\* "int" number, NaN payloads are one NaN
F64ToNum(bytes) ==
    LET bits == BitsOfBytes(bytes)
        sign == bits[64] = 1
        e == BitsNat(SubSeq(bits, 53, 63))
        frac == SubSeq(bits, 1, 52)
        sig == frac \o <<1>>
        sh == e - 1075
    IN IF e = 2047 THEN (IF AllZero(frac) THEN F64(bytes) ELSE NaN)
       ELSE IF e = 0
       THEN (IF AllZero(frac) THEN (IF sign THEN JSNeg(<<>>) ELSE JSNat(<<>>))
             ELSE F64(bytes))
       ELSE IF sh >= 0
       THEN (IF sign THEN JSNeg(Zeros(sh) \o sig) ELSE JSNat(Zeros(sh) \o sig))
       ELSE IF 0 - sh <= 52 /\ AllZero(SubSeq(sig, 1, 0 - sh))
       THEN (IF sign THEN JSNeg(Shr(sig, 0 - sh)) ELSE JSNat(Shr(sig, 0 - sh)))
       ELSE F64(bytes)

\* the 8 IEEE bytes of a JS number (an integral one has at most 53
\* significant bits, being a double)
NumToF64(v) ==
    IF v.k = "f64" THEN v.bytes
    ELSE LET m == Mag(v)
             L == Len(m)
             s == IF v.neg THEN 1 ELSE 0
             frac == IF L - 1 <= 52 THEN Zeros(52 - (L - 1)) \o SubSeq(m, 1, L - 1)
                     ELSE SubSeq(m, L - 52, L - 1)
         IN IF L = 0 THEN BytesOf(Zeros(63) \o <<s>>, 8)
            ELSE BytesOf(frac \o Pad(NatBits(1023 + L - 1), 11) \o <<s>>, 8)

\* the JS number 4 little-endian IEEE single-precision bytes denote
F32ToNum(bytes) ==
    LET bits == BitsOfBytes(bytes)
        s == bits[32]
        e == BitsNat(SubSeq(bits, 24, 31))
        frac == SubSeq(bits, 1, 23)
        L == Len(Trim(frac))
    IN IF e = 255
       THEN (IF AllZero(frac) THEN (IF s = 1 THEN NegInfinity ELSE PosInfinity) ELSE NaN)
       ELSE IF e = 0 /\ AllZero(frac)
       THEN (IF s = 1 THEN JSNeg(<<>>) ELSE JSNat(<<>>))
       ELSE IF e = 0
       THEN F64ToNum(BytesOf(Zeros(52 - (L - 1)) \o SubSeq(frac, 1, L - 1)
                             \o Pad(NatBits(1023 + L - 150), 11) \o <<s>>, 8))
       ELSE F64ToNum(BytesOf(Zeros(29) \o frac \o Pad(NatBits(e + 896), 11) \o <<s>>, 8))

----------------------------------------------------------------------------
(* Text: a string is its sequence of code points (Unicode scalar values)  *)

\* TextEncoder.encode
RECURSIVE Utf8Encode(_)
Utf8Encode(cps) ==
    IF cps = <<>> THEN <<>>
    ELSE LET c == cps[1]
             head == IF c < 128 THEN <<c>>
                     ELSE IF c < 2048 THEN <<192 + (c \div 64), 128 + (c % 64)>>
                     ELSE IF c < 65536
                     THEN <<224 + (c \div 4096), 128 + ((c \div 64) % 64), 128 + (c % 64)>>
                     ELSE <<240 + (c \div 262144), 128 + ((c \div 4096) % 64),
                            128 + ((c \div 64) % 64), 128 + (c % 64)>>
         IN head \o Utf8Encode(Tail(cps))

\* string.length: UTF-16 code units
RECURSIVE Utf16Length(_)
Utf16Length(cps) ==
    IF cps = <<>> THEN 0
    ELSE (IF cps[1] >= 65536 THEN 2 ELSE 1) + Utf16Length(Tail(cps))

\* the UTF-8 decoder of TextDecoder from byte i on: an ill-formed sequence
\* gives one U+FFFD and decoding resumes at the byte that broke it
RECURSIVE Utf8Dec(_, _)
Utf8Dec(bs, i) ==
    IF i > Len(bs) THEN <<>>
    ELSE LET b == bs[i]
             need == IF b < 128 THEN 0
                     ELSE IF b \in 194..223 THEN 1
                     ELSE IF b \in 224..239 THEN 2
                     ELSE IF b \in 240..244 THEN 3 ELSE 4
             lo1 == IF b = 224 THEN 160 ELSE IF b = 240 THEN 144 ELSE 128
             hi1 == IF b = 237 THEN 159 ELSE IF b = 244 THEN 143 ELSE 191
             g1 == need \in 1..3 /\ i + 1 <= Len(bs) /\ bs[i + 1] \in lo1..hi1
             g2 == g1 /\ need >= 2 /\ i + 2 <= Len(bs) /\ bs[i + 2] \in 128..191
             g3 == g2 /\ need >= 3 /\ i + 3 <= Len(bs) /\ bs[i + 3] \in 128..191
             got == IF g3 THEN 3 ELSE IF g2 THEN 2 ELSE IF g1 THEN 1 ELSE 0
             cp == CASE need = 1 -> (b - 192) * 64 + (bs[i + 1] - 128)
                     [] need = 2 -> (b - 224) * 4096 + (bs[i + 1] - 128) * 64
                                    + (bs[i + 2] - 128)
                     [] OTHER -> (b - 240) * 262144 + (bs[i + 1] - 128) * 4096
                                 + (bs[i + 2] - 128) * 64 + (bs[i + 3] - 128)
         IN IF need = 0 THEN <<b>> \o Utf8Dec(bs, i + 1)
            ELSE IF need = 4 THEN <<65533>> \o Utf8Dec(bs, i + 1)
            ELSE IF got = need THEN <<cp>> \o Utf8Dec(bs, i + 1 + need)
            ELSE <<65533>> \o Utf8Dec(bs, i + 1 + got)

\* new TextDecoder().decode(bytes): a leading byte order mark is dropped
TextDecode(bs) ==
    LET d == Utf8Dec(bs, 1)
    IN IF d # <<>> /\ d[1] = 65279 THEN Tail(d) ELSE d

----------------------------------------------------------------------------
(* JS values.  An object is the sequence of its own enumerable members in  *)
(* Object.keys order; the keys used are not integer-like, so that order is *)
(* insertion order.                                                        *)

Bool(b) == [t |-> "bool", b |-> b]

Str(cps) == [t |-> "str", cps |-> cps]

Bin(bytes) == [t |-> "bin", bytes |-> bytes]

Arr(items) == [t |-> "arr", items |-> items]

Obj(members) == [t |-> "obj", members |-> members]

\* a slot of new Array(N) never assigned
Empty == [t |-> "empty"]

BigInt(neg, bits) == [t |-> "bigint", neg |-> neg, mag |-> MagBytes(bits)]

Member(key, val) == [key |-> key, val |-> val]

\* objectData[key] = val
ObjSet(members, key, val) ==
    IF \E i \in 1..Len(members) : members[i].key = key
    THEN [i \in 1..Len(members) |->
            IF members[i].key = key THEN Member(key, val) ELSE members[i]]
    ELSE Append(members, Member(key, val))

----------------------------------------------------------------------------
(* Writer.append and the encoder *)

RECURSIVE append(_, _)
append(w, value) ==
    IF w.thrown # "none" THEN w
    ELSE IF value.t = "arr"
    THEN (IF value.items = <<>> THEN w
          ELSE append(append(w, value.items[1]), Arr(Tail(value.items))))
    ELSE IF value.t = "str"
    THEN LET bytes == Utf8Encode(value.cps)
         IN PutBytes(ensureCapacity(w, Len(bytes)), bytes)
    ELSE IF IsInteger(value)
            /\ (IF IsNegative(value) THEN MagLeqPow2(value, 31) ELSE Len(Mag(value)) <= 31)
    THEN PutBytes(ensureCapacity(w, 4), BytesOf(TwosComplement(value, 32), 4))
    ELSE IF value.t = "num"
    THEN PutBytes(ensureCapacity(w, 8), NumToF64(value))
    ELSE Throw(w, "Unsupported value type")

\* header = 1 | (num_type << 3) | (byte_count_index << 5)
NumberHeader(num_type, byte_count_index) == JSInt(1 + num_type * 8 + byte_count_index * 32)

\* the byte-count index the if-chain on a negative integer selects
SignedIndex(value) ==
    IF MagLeqPow2(value, 7) THEN 0
    ELSE IF MagLeqPow2(value, 15) THEN 1
    ELSE IF MagLeqPow2(value, 31) THEN 2 ELSE 3

\* the if-chain on a non-negative integer with < in place of <=
UnsignedIndexExclusive(value) ==
    IF Len(Mag(value)) <= 8 /\ Mag(value) # AllOnes(8) THEN 0
    ELSE IF Len(Mag(value)) <= 16 /\ Mag(value) # AllOnes(16) THEN 1
    ELSE IF Len(Mag(value)) <= 32 /\ Mag(value) # AllOnes(32) THEN 2 ELSE 3

\* the byte-count index the if-chain on a non-negative integer selects
UnsignedIndex(value) ==
    IF Len(Mag(value)) <= 8 THEN 0
    ELSE IF Len(Mag(value)) <= 16 THEN 1
    ELSE IF Len(Mag(value)) <= 32 THEN 2 ELSE 3

\* writer.append_int8 / 16 / 32 / 64 (value): Writer has no such method, so
\* the call throws a TypeError
append_int(w, index, value) ==
    IF w.thrown # "none" THEN w
    ELSE Throw(w, "TypeError: writer.append_int" \o <<"8", "16", "32", "64">>[index + 1]
                  \o " is not a function")

\* writer.append_uint8 / 16 / 32 / 64 (value)
append_uint(w, index, value) ==
    CASE index = 0 -> append_uint8(w, value)
      [] index = 1 -> append_uint16(w, value)
      [] index = 2 -> append_uint32(w, value)
      [] OTHER -> append_uint64(w, value)

\* the members Object.keys(value).filter(key => value[key] !== undefined) keeps
Defined(members) == SelectSeq(members, LAMBDA m : m.val.t # "undefined")

RECURSIVE write_value(_, _)
RECURSIVE write_items(_, _)
RECURSIVE write_members(_, _)

\* for (i < value.length) write_value(writer, value[i]); a hole reads undefined
write_items(w, items) ==
    IF items = <<>> \/ w.thrown # "none" THEN w
    ELSE write_items(write_value(w, IF items[1].t = "empty" THEN Undefined ELSE items[1]),
                     Tail(items))

\* for (key of keys): the key's length prefix is key.length, then the key, then the value
write_members(w, members) ==
    IF members = <<>> \/ w.thrown # "none" THEN w
    ELSE write_members(
            write_value(append(writeCompressed(w, JSInt(Utf16Length(members[1].key))),
                               Str(members[1].key)),
                        members[1].val),
            Tail(members))

write_value(w, value) ==
    IF w.thrown # "none" THEN w
    ELSE CASE value.t = "bin" ->
                LET w1 == ensureCapacity(writeCompressed(append_uint8(w, JSInt(6)),
                                                         JSInt(Len(value.bytes))),
                                         Len(value.bytes))
                IN PutBytes(w1, value.bytes)
           [] value.t = "arr" ->
                write_items(writeCompressed(append_uint8(w, JSInt(5)),
                                            JSInt(Len(value.items))),
                            value.items)
           [] value.t \in {"null", "undefined"} -> append_uint8(w, JSInt(0))
           [] value.t = "bool" -> append_uint8(w, JSInt(IF value.b THEN 24 ELSE 8))
           [] value.t = "num" ->
                IF value.k = "f64"
                THEN append(append_uint8(w, NumberHeader(0, 3)), value)
                ELSE IF IsNegative(value)
                THEN append_int(append_uint8(w, NumberHeader(1, SignedIndex(value))),
                                SignedIndex(value), value)
                ELSE append_uint(append_uint8(w, NumberHeader(2, UnsignedIndex(value))),
                                 UnsignedIndex(value), value)
           [] value.t = "str" ->
                append(writeCompressed(append_uint8(w, JSInt(2)),
                                       JSInt(Len(Utf8Encode(value.cps)))),
                       value)
           [] value.t = "obj" ->
                write_members(writeCompressed(append_uint8(w, JSInt(3)),
                                              JSInt(Len(Defined(value.members)))),
                              Defined(value.members))
           [] OTHER -> Throw(w, "Unsupported data type")

\* writeBeve(data): the Writer after write_value; the bytes returned are
\* Written(writer) when nothing was thrown
writeBeve(data) == write_value(NewWriter(DefaultWriterSize), data)

----------------------------------------------------------------------------
(* The decoder's primitive readers.  Each but readInt8 / readUInt8 makes   *)
(* its DataView at cursor.value of the ArrayBuffer.                        *)

\* the signed value of a w-bit two's complement pattern, as bits and sign
SignedNeg(bits, w) == bits[w] = 1

SignedMag(bits, w) == IF bits[w] = 1 THEN Negate(bits, w) ELSE bits

\* a fixed-width read of n bytes: the bounds check against the view, then the
\* DataView over the ArrayBuffer; val is the bytes under the view
FixedRead(buf, cur, n, what) ==
    IF cur + n > buf.length
    THEN Raise("Buffer overflow: not enough data for " \o what, cur)
    ELSE IF cur + n > Len(buf.ab)
    THEN Raise("RangeError: Invalid DataView length", cur)
    ELSE Ret(ViewBytes(buf.ab, cur, n), cur + n)

IntOfBytes(bs) ==
    LET bits == BitsOfBytes(bs)
    IN IF SignedNeg(bits, Len(bits)) THEN JSNeg(SignedMag(bits, Len(bits)))
       ELSE JSNat(bits)

UIntOfBytes(bs) == JSNat(BitsOfBytes(bs))

BigIntOfBytes(bs) ==
    LET bits == BitsOfBytes(bs)
    IN BigInt(SignedNeg(bits, Len(bits)) /\ ~AllZero(bits), SignedMag(bits, Len(bits)))

BigUIntOfBytes(bs) == BigInt(FALSE, BitsOfBytes(bs))

readInt8(buf, cur) ==
    IF cur + 1 > buf.length
    THEN Raise("Buffer overflow: not enough data for int8", cur)
    ELSE Ret(IF Byte(buf, cur) < 128 THEN JSInt(Byte(buf, cur))
             ELSE JSInt(Byte(buf, cur) - 256), cur + 1)

readInt16(buf, cur) ==
    LET r == FixedRead(buf, cur, 2, "int16")
    IN IF r.thrown # "none" THEN r ELSE Ret(IntOfBytes(r.val), r.cur)

readInt32(buf, cur) ==
    LET r == FixedRead(buf, cur, 4, "int32")
    IN IF r.thrown # "none" THEN r ELSE Ret(IntOfBytes(r.val), r.cur)

readBigInt64(buf, cur) ==
    LET r == FixedRead(buf, cur, 8, "int64")
    IN IF r.thrown # "none" THEN r ELSE Ret(BigIntOfBytes(r.val), r.cur)

readUInt8(buf, cur) ==
    IF cur + 1 > buf.length
    THEN Raise("Buffer overflow: not enough data for uint8", cur)
    ELSE Ret(JSInt(Byte(buf, cur)), cur + 1)

readUInt16(buf, cur) ==
    LET r == FixedRead(buf, cur, 2, "uint16")
    IN IF r.thrown # "none" THEN r ELSE Ret(UIntOfBytes(r.val), r.cur)

readUInt32(buf, cur) ==
    LET r == FixedRead(buf, cur, 4, "uint32")
    IN IF r.thrown # "none" THEN r ELSE Ret(UIntOfBytes(r.val), r.cur)

readBigUInt64(buf, cur) ==
    LET r == FixedRead(buf, cur, 8, "uint64")
    IN IF r.thrown # "none" THEN r ELSE Ret(BigUIntOfBytes(r.val), r.cur)

readFloat(buf, cur) ==
    LET r == FixedRead(buf, cur, 4, "float32")
    IN IF r.thrown # "none" THEN r ELSE Ret(F32ToNum(r.val), r.cur)

readDouble(buf, cur) ==
    LET r == FixedRead(buf, cur, 8, "float64")
    IN IF r.thrown # "none" THEN r ELSE Ret(F64ToNum(r.val), r.cur)

----------------------------------------------------------------------------
(* The decoder *)

\* config[byte_count_index]; 0 stands for the undefined of an index past the
\* end of config
config(index) == IF index < 4 THEN <<1, 2, 4, 8>>[index + 1] ELSE 0

\* a size or count read_compressed returned, as a TLC integer: one of more
\* than 30 bits is larger than any buffer here
TooLarge == BitsNat(Pow2(30))

Count(N) == IF Len(Mag(N)) <= 30 THEN BitsNat(Mag(N)) ELSE TooLarge

\* the element reader a numeric header selects: "none" when no case of the
\* switch matches
Reader(is_float, is_signed, byte_count) ==
    IF is_float
    THEN CASE byte_count = 4 -> "float" [] byte_count = 8 -> "double" [] OTHER -> "none"
    ELSE IF is_signed
    THEN CASE byte_count = 1 -> "int8" [] byte_count = 2 -> "int16"
           [] byte_count = 4 -> "int32" [] byte_count = 8 -> "int64" [] OTHER -> "none"
    ELSE CASE byte_count = 1 -> "uint8" [] byte_count = 2 -> "uint16"
           [] byte_count = 4 -> "uint32" [] byte_count = 8 -> "uint64" [] OTHER -> "none"

ReadWith(reader, buf, cur) ==
    CASE reader = "float" -> readFloat(buf, cur)
      [] reader = "double" -> readDouble(buf, cur)
      [] reader = "int8" -> readInt8(buf, cur)
      [] reader = "int16" -> readInt16(buf, cur)
      [] reader = "int32" -> readInt32(buf, cur)
      [] reader = "int64" -> readBigInt64(buf, cur)
      [] reader = "uint8" -> readUInt8(buf, cur)
      [] reader = "uint16" -> readUInt16(buf, cur)
      [] reader = "uint32" -> readUInt32(buf, cur)
      [] OTHER -> readBigUInt64(buf, cur)

\* for (i < n) array[i] = read(buffer, cursor), acc the elements so far
RECURSIVE ReadElements(_, _, _, _, _)
ReadElements(reader, buf, cur, n, acc) ==
    IF n = 0 THEN Ret(Arr(acc), cur)
    ELSE LET r == ReadWith(reader, buf, cur)
         IN IF r.thrown # "none" THEN r
            ELSE ReadElements(reader, buf, r.cur, n - 1, Append(acc, r.val))

\* a length-prefixed text without header: an object key, a string, a string
\* array element
ReadText(buf, cur, what) ==
    LET s == read_compressed(buf, cur)
    IN IF s.thrown # "none" THEN s
       ELSE IF s.cur + Count(s.val) > buf.length
       THEN Raise("Buffer overflow: " \o what, s.cur)
       ELSE Ret(Str(TextDecode(SubBytes(buf, s.cur, s.cur + Count(s.val)))),
                s.cur + Count(s.val))

RECURSIVE ReadStrings(_, _, _, _)
ReadStrings(buf, cur, n, acc) ==
    IF n = 0 THEN Ret(Arr(acc), cur)
    ELSE LET r == ReadText(buf, cur, "string array element")
         IN IF r.thrown # "none" THEN r
            ELSE ReadStrings(buf, r.cur, n - 1, Append(acc, r.val))

\* for (i < N) array[i] = Boolean(buffer[cursor.value++])
ReadBooleans(buf, cur, n) ==
    Ret(Arr([i \in 1..n |-> Bool(Byte(buf, cur + i - 1) # 0)]), cur + n)

RECURSIVE read_value(_, _)
RECURSIVE ReadMembers(_, _, _, _, _)
RECURSIVE ReadValues(_, _, _, _)

\* the loop of case 3 over the N declared members
ReadMembers(buf, cur, is_string, n, acc) ==
    IF n = 0 THEN Ret(Obj(acc), cur)
    ELSE IF ~is_string THEN Raise("TODO: support integer keys", cur)
    ELSE LET k == ReadText(buf, cur, "object key")
         IN IF k.thrown # "none" THEN k
            ELSE LET v == read_value(buf, k.cur)
                 IN IF v.thrown # "none" THEN v
                    ELSE ReadMembers(buf, v.cur, is_string, n - 1,
                                     ObjSet(acc, k.val.cps, v.val))

\* the loop of case 5 over the N declared elements
ReadValues(buf, cur, n, acc) ==
    IF n = 0 THEN Ret(Arr(acc), cur)
    ELSE LET v == read_value(buf, cur)
         IN IF v.thrown # "none" THEN v
            ELSE ReadValues(buf, v.cur, n - 1, Append(acc, v.val))

\* new Array(N)
ArrayLengthOk(N) == Len(Mag(N)) <= 32

read_value(buf, cur) ==
    IF cur >= buf.length THEN Raise("Buffer overflow: cursor at buffer end", cur)
    ELSE
    LET header == Byte(buf, cur)
        type == header % 8
        sub == (header \div 8) % 4
        byte_count == config(header \div 32)
        c == cur + 1
    IN CASE type = 0 ->
              IF sub % 2 = 1 THEN Ret(Bool(header \div 16 # 0), c) ELSE Ret(Null, c)
         [] type = 1 ->
              LET reader == Reader(sub = 0, sub = 1, byte_count)
              IN IF reader = "none" THEN Ret(Undefined, c) ELSE ReadWith(reader, buf, c)
         [] type = 2 -> ReadText(buf, c, "string size")
         [] type = 3 ->
              LET N == read_compressed(buf, c)
              IN IF N.thrown # "none" THEN N
                 ELSE ReadMembers(buf, N.cur, sub = 0, Count(N.val), <<>>)
         [] type = 4 ->
              LET N == read_compressed(buf, c)
                  reader == Reader(sub = 0, sub = 1, byte_count)
              IN IF N.thrown # "none" THEN N
                 ELSE IF sub = 3 /\ (header \div 32) % 2 = 1
                 THEN (IF ~ArrayLengthOk(N.val)
                       THEN Raise("RangeError: Invalid array length", N.cur)
                       ELSE ReadStrings(buf, N.cur, Count(N.val), <<>>))
                 ELSE IF sub = 3
                 THEN (IF N.cur + Count(N.val) > buf.length
                       THEN Raise("Buffer overflow: boolean array size", N.cur)
                       ELSE ReadBooleans(buf, N.cur, Count(N.val)))
                 ELSE IF ~ArrayLengthOk(N.val)
                 THEN Raise("RangeError: Invalid array length", N.cur)
                 ELSE IF reader = "none"
                 THEN Ret(Arr([i \in 1..Count(N.val) |-> Empty]), N.cur)
                 ELSE ReadElements(reader, buf, N.cur, Count(N.val), <<>>)
         [] type = 5 ->
              LET N == read_compressed(buf, c)
              IN IF N.thrown # "none" THEN N
                 ELSE IF ~ArrayLengthOk(N.val)
                 THEN Raise("RangeError: Invalid array length", N.cur)
                 ELSE ReadValues(buf, N.cur, Count(N.val), <<>>)
         [] type = 6 ->
              LET s == read_compressed(buf, c)
              IN IF s.thrown # "none" THEN s
                 ELSE IF s.cur + Count(s.val) > buf.length
                 THEN Raise("Buffer overflow: binary data size", s.cur)
                 ELSE Ret(Bin(SubBytes(buf, s.cur, s.cur + Count(s.val))),
                          s.cur + Count(s.val))
         [] OTHER -> Raise("Unknown type: 7", c)

\* readBeve(buffer): read_value with the cursor at 0
readBeve(buf) == read_value(buf, 0)

----------------------------------------------------------------------------
(* The extension decoders.  The caller has consumed the header byte.  None *)
(* checks the cursor against the buffer: a byte past the end reads         *)
(* undefined, which a bit operation takes as 0.                            *)

\* a + b + carry modulo 2^Len(a), for bit sequences of one length
RECURSIVE AddBits(_, _, _)
AddBits(a, b, carry) ==
    IF a = <<>> THEN <<>>
    ELSE <<(a[1] + b[1] + carry) % 2>>
         \o AddBits(Tail(a), Tail(b), (a[1] + b[1] + carry) \div 2)

\* b0 | (b1 << 8) | (b2 << 16) | (b3 << 24) of the 4 bytes at cur: 32 bits
Word(buf, cur) ==
    BitsOfBytes(<<ByteOr0(buf, cur), ByteOr0(buf, cur + 1),
                  ByteOr0(buf, cur + 2), ByteOr0(buf, cur + 3)>>)

\* w bits sign-extended to n
SignExtend(bits, n) == [i \in 1..n |-> IF i <= Len(bits) THEN bits[i] ELSE bits[Len(bits)]]

\* low + high * 0x100000000 for the int32 values of two 32-bit patterns, as
\* the nearest double
LowPlusHigh(low, high) ==
    LET wide == SignExtend(low \o high, 66)
        minus == Zeros(32) \o AllOnes(34)
        sum == IF low[32] = 1 THEN AddBits(wide, minus, 0) ELSE wide
    IN IF sum[66] = 1 THEN JSNeg(RoundToDouble(Trim(Negate(sum, 66))))
       ELSE JSNat(RoundToDouble(Trim(sum)))

\* enum ExtensionID
FIELD_INDEX == 0

TYPED_ARRAY == 1

TIMESTAMP == 4

DURATION == 5

UUID == 8

\* 0b00000110 | (extId << 3), for the extension ids below 32
createExtensionHeader(extId) == 6 + extId * 8

Uuid(version, bytes) == [t |-> "uuid", version |-> version, bytes |-> bytes]

Duration(seconds, nanoseconds) ==
    [t |-> "duration", seconds |-> seconds, nanoseconds |-> nanoseconds]

Timestamp(seconds, nanoseconds, timezoneOffset) ==
    [t |-> "timestamp", seconds |-> seconds, nanoseconds |-> nanoseconds,
     timezoneOffset |-> timezoneOffset]

\* decodeUUID taking its 16 bytes from the version byte on
decodeUUIDFromVersion(buf, cur) ==
    Ret(Uuid(IF cur < buf.length THEN JSInt(Byte(buf, cur)) ELSE Undefined,
             SubBytes(buf, cur, cur + 16)),
        cur + 17)

decodeUUID(buf, cur) ==
    LET version == IF cur < buf.length THEN JSInt(Byte(buf, cur)) ELSE Undefined
    IN Ret(Uuid(version, SubBytes(buf, cur + 1, cur + 17)), cur + 17)

decodeDuration(buf, cur) ==
    Ret(Duration(LowPlusHigh(Word(buf, cur), Word(buf, cur + 4)),
                 Int32OfBits(Word(buf, cur + 8))),
        cur + 12)

decodeTimestamp(buf, cur) ==
    LET hasTz == ByteOr0(buf, cur) % 2 = 1
        tz == BitsOfBytes(<<ByteOr0(buf, cur + 13), ByteOr0(buf, cur + 14)>>)
    IN Ret(Timestamp(Int32OfBits(Word(buf, cur + 1)),
                     Int32OfBits(Word(buf, cur + 9)),
                     IF hasTz THEN Int32OfBits(SignExtend(tz, 32)) ELSE Null),
           IF hasTz THEN cur + 15 ELSE cur + 13)

----------------------------------------------------------------------------
(* The extension encoders *)

\* typeof x === 'bigint' ? Number(x) : x
ToNumber(x) ==
    IF x.t = "bigint"
    THEN (IF x.neg THEN JSNeg(RoundToDouble(Mag(x))) ELSE JSNat(RoundToDouble(Mag(x))))
    ELSE x

\* x & 0xFFFFFFFF: both operands go through ToInt32, the mask being -1
LowWord(x) == Int32OfBits(TwosComplement(x, 32))

\* Math.floor(x / 0x100000000) for an integral x
HighWord(x) ==
    IF IsNegative(x)
    THEN JSNeg(IF AllZero(Pad(Mag(x), 32)) THEN Shr(Mag(x), 32)
               ELSE Incr(Shr(Mag(x), 32)))
    ELSE JSNat(Shr(Mag(x), 32))

\* (x >> shift) & 0xFF for an int32 x and shift 0 or 8
ByteAt(x, shift) == JSNat(SubSeq(TwosComplement(x, 32), shift + 1, shift + 8))

encodeTimestamp(ts, w) ==
    LET hasTz == ts.timezoneOffset.t \notin {"undefined", "null"}
        seconds == ToNumber(ts.seconds)
        w1 == append_uint8(w, JSInt(createExtensionHeader(TIMESTAMP)))
        w2 == append_uint8(w1, JSInt(2 + (IF hasTz THEN 1 ELSE 0)))
        w3 == append_uint32(w2, LowWord(seconds))
        w4 == append_uint32(w3, HighWord(seconds))
        w5 == append_uint32(w4, ts.nanoseconds)
    IN IF hasTz
       THEN append_uint8(append_uint8(w5, ByteAt(ts.timezoneOffset, 0)),
                         ByteAt(ts.timezoneOffset, 8))
       ELSE w5

encodeDuration(duration, w) ==
    LET seconds == ToNumber(duration.seconds)
        w1 == append_uint8(w, JSInt(createExtensionHeader(DURATION)))
        w2 == append_uint32(w1, LowWord(seconds))
        w3 == append_uint32(w2, HighWord(seconds))
    IN append_uint32(w3, duration.nanoseconds)

\* a % b of JS for integers a and b > 0: the sign is that of a, so a
\* negative multiple of b gives -0
JSRem(a, b) == IF a < 0 THEN JSNeg(NatBits((0 - a) % b)) ELSE JSNat(NatBits(a % b))

\* x * 1_000_000 for an integral x below 2000
TimesMillion(x) ==
    IF x.neg THEN JSNeg(NatBits(BitsNat(Mag(x)) * 1000000))
    ELSE JSNat(NatBits(BitsNat(Mag(x)) * 1000000))

\* the number of a small integral JS number
IntOf(x) == IF x.neg THEN 0 - BitsNat(Mag(x)) ELSE BitsNat(Mag(x))

\* encodeMilliseconds(ms, writer) for an integral ms
encodeMilliseconds(ms, w) ==
    encodeDuration(Duration(JSInt(IntOf(ms) \div 1000), TimesMillion(JSRem(IntOf(ms), 1000))), w)

\* dateToTimestamp(date) for date.getTime() = ms
dateToTimestamp(ms) ==
    Timestamp(JSInt(IntOf(ms) \div 1000), TimesMillion(JSRem(IntOf(ms), 1000)), Null)

addToTimestamp(ts, seconds, nanoseconds) ==
    LET newNanos == IntOf(ts.nanoseconds) + IntOf(nanoseconds)
        carrySeconds == newNanos \div 1000000000
    IN Timestamp(JSInt(IntOf(ToNumber(ts.seconds)) + IntOf(seconds) + carrySeconds),
                 JSRem(newNanos, 1000000000),
                 ts.timezoneOffset)

\* writer.buffer.set(uuid.bytes, writer.offset) after ensureCapacity(16)
encodeUUID(uuid, w) ==
    PutBytes(ensureCapacity(append_uint8(append_uint8(w, JSInt(createExtensionHeader(UUID))),
                                         uuid.version),
                            16),
             uuid.bytes)

\* (bytes[6] & 0xf0) >> 4
getUUIDVersion(bytes) == bytes[7] \div 16

----------------------------------------------------------------------------
(* Typed object arrays *)

\* the UTF-16 code units of a string
RECURSIVE Utf16(_)
Utf16(cps) ==
    IF cps = <<>> THEN <<>>
    ELSE (IF cps[1] >= 65536
          THEN <<55296 + ((cps[1] - 65536) \div 1024), 56320 + ((cps[1] - 65536) % 1024)>>
          ELSE <<cps[1]>>)
         \o Utf16(Tail(cps))

\* a < b in the order of Array.prototype.sort without comparator: by code units
RECURSIVE UnitsLess(_, _)
UnitsLess(a, b) ==
    IF b = <<>> THEN FALSE
    ELSE IF a = <<>> THEN TRUE
    ELSE IF a[1] # b[1] THEN a[1] < b[1]
    ELSE UnitsLess(Tail(a), Tail(b))

RECURSIVE InsertKey(_, _)
InsertKey(key, sorted) ==
    IF sorted = <<>> THEN <<key>>
    ELSE IF UnitsLess(Utf16(key), Utf16(sorted[1])) THEN <<key>> \o sorted
    ELSE <<sorted[1]>> \o InsertKey(key, Tail(sorted))

\* keys.sort()
RECURSIVE SortKeys(_)
SortKeys(keys) == IF keys = <<>> THEN <<>> ELSE InsertKey(keys[1], SortKeys(Tail(keys)))

\* Object.keys(obj) of a plain object
ObjectKeys(obj) == [i \in 1..Len(obj.members) |-> obj.members[i].key]

\* obj[field]
GetField(obj, field) ==
    IF \E i \in 1..Len(obj.members) : obj.members[i].key = field
    THEN obj.members[CHOOSE i \in 1..Len(obj.members) : obj.members[i].key = field].val
    ELSE Undefined

\* an array, not empty, of plain objects whose sorted keys are those of the
\* first
isTypedObjectArray(data) ==
    /\ data.t = "arr"
    /\ data.items # <<>>
    /\ \A i \in 1..Len(data.items) : data.items[i].t = "obj"
    /\ \A i \in 1..Len(data.items) :
            SortKeys(ObjectKeys(data.items[i])) = SortKeys(ObjectKeys(data.items[1]))

\* for (field of fields) { writeCompressed(writer, field.length); writer.append(field) }
RECURSIVE WriteFieldNames(_, _)
WriteFieldNames(w, fields) ==
    IF fields = <<>> \/ w.thrown # "none" THEN w
    ELSE WriteFieldNames(append(writeCompressed(w, JSInt(Utf16Length(fields[1]))),
                                Str(fields[1])),
                         Tail(fields))

\* for (field of fields) write_value_internal(writer, obj[field])
RECURSIVE WriteRow(_, _, _)
WriteRow(w, obj, fields) ==
    IF fields = <<>> \/ w.thrown # "none" THEN w
    ELSE WriteRow(write_value(w, GetField(obj, fields[1])), obj, Tail(fields))

RECURSIVE WriteRows(_, _, _)
WriteRows(w, objs, fields) ==
    IF objs = <<>> \/ w.thrown # "none" THEN w
    ELSE WriteRows(WriteRow(w, objs[1], fields), Tail(objs), fields)

encodeTypedObjectArray(data, w) ==
    IF ~isTypedObjectArray(data)
    THEN Throw(w, "Data is not a typed object array (objects must have same keys)")
    ELSE LET fields == SortKeys(ObjectKeys(data.items[1]))
             w1 == append_uint8(w, JSInt(createExtensionHeader(TYPED_ARRAY)))
             w2 == WriteFieldNames(writeCompressed(w1, JSInt(Len(fields))), fields)
             w3 == writeCompressed(w2, JSInt(Len(data.items)))
         IN WriteRows(w3, data.items, fields)

\* the loop over fieldCount: no check of the cursor against the buffer, and
\* subarray clamps to the buffer
RECURSIVE ReadFieldNames(_, _, _, _)
ReadFieldNames(buf, cur, n, acc) ==
    IF n = 0 THEN Ret(acc, cur)
    ELSE LET len == read_compressed(buf, cur)
         IN IF len.thrown # "none" THEN len
            ELSE ReadFieldNames(buf, len.cur + Count(len.val), n - 1,
                                Append(acc, TextDecode(SubBytes(buf, len.cur,
                                                                len.cur + Count(len.val)))))

\* the decoder module exports no read_value_internal: the name is undefined
\* and the first call of it throws; with no field there is no call
decodeTypedObjectArray(buf, cur) ==
    LET fieldCount == read_compressed(buf, cur)
    IN IF fieldCount.thrown # "none" THEN fieldCount
       ELSE LET fields == ReadFieldNames(buf, fieldCount.cur, Count(fieldCount.val), <<>>)
            IN IF fields.thrown # "none" THEN fields
               ELSE LET objectCount == read_compressed(buf, fields.cur)
                    IN IF objectCount.thrown # "none" THEN objectCount
                       ELSE IF Count(objectCount.val) > 0 /\ fields.val # <<>>
                       THEN Raise("TypeError: read_value_internal is not a function",
                                  objectCount.cur)
                       ELSE Ret(Arr([i \in 1..Count(objectCount.val) |-> Obj(<<>>)]),
                                objectCount.cur)

----------------------------------------------------------------------------
(* The values the codec is run on *)

IntegerSamples ==
    {JSInt(n) : n \in {0, 1, 42, 255, 256, 65535, 65536}}
    \cup {JSNat(AllOnes(32)), JSNat(Pow2(32)), JSNat(AllOnes(53)), JSNat(Pow2(64)),
          JSNat(Pow2(70))}
    \cup {JSNeg(<<>>)}
    \cup {JSInt(0 - n) : n \in {1, 42, 128, 129, 32768, 32769}}
    \cup {JSNeg(Pow2(31)), JSNeg(<<1>> \o Pow2(30)), JSNeg(AllOnes(53))}

\* 0.5, -2.5, 3.14, Number.MIN_VALUE
FractionSamples ==
    {F64(<<0, 0, 0, 0, 0, 0, 224, 63>>), F64(<<0, 0, 0, 0, 0, 0, 4, 192>>),
     F64(<<31, 133, 235, 81, 184, 30, 9, 64>>), F64(<<1, 0, 0, 0, 0, 0, 0, 0>>)}

NumberSamples == IntegerSamples \cup FractionSamples \cup {NaN, PosInfinity, NegInfinity}

\* a, e-acute (2 bytes), an ideograph (3 bytes), an emoji (4 bytes, 2 code
\* units), the byte order mark
Alphabet == {97, 233, 19990, 127757}

MaxTextLen == 2

TextSamples ==
    UNION {[1..n -> Alphabet] : n \in 0..MaxTextLen} \cup {<<65279, 97>>}

KeySamples == {<<97>>, <<233>>, <<98, 127757>>}

BinarySamples == {Bin(<<>>), Bin(<<0>>), Bin(<<1, 255>>)}

Leaves ==
    {Null, Bool(TRUE), Bool(FALSE)} \cup NumberSamples
    \cup {Str(t) : t \in TextSamples} \cup BinarySamples

\* the elements and member values of the containers
Elements ==
    {Null, Bool(TRUE), JSInt(7), JSInt(300), JSInt(0 - 5),
     F64(<<0, 0, 0, 0, 0, 0, 224, 63>>), Str(<<97>>), Str(<<233>>), Undefined, Empty}

MaxMembers == 2

\* arrays of up to MaxMembers elements
ArraysOf(S) == {Arr(items) : items \in UNION {[1..n -> S] : n \in 0..MaxMembers}}

\* objects of up to MaxMembers members with distinct keys
ObjectsOf(S) ==
    {Obj(<<>>)}
    \cup {Obj(<<Member(k, v)>>) : k \in KeySamples, v \in S \ {Empty}}
    \cup (IF MaxMembers < 2 THEN {}
          ELSE {Obj(<<Member(<<97>>, v), Member(k, JSInt(7))>>) :
                    k \in KeySamples \ {<<97>>}, v \in S \ {Empty}})

Flat == ArraysOf(Elements) \cup ObjectsOf(Elements)

\* containers of containers
Nested ==
    LET inner == {Arr(<<>>), Arr(<<JSInt(7), Str(<<97>>)>>), Obj(<<>>),
                  Obj(<<Member(<<97>>, JSInt(7))>>), Obj(<<Member(<<233>>, Null)>>)}
    IN ArraysOf(inner) \cup ObjectsOf(inner)

\* arrays of booleans only: [true, false, true], [false, true], and nine
\* elements alternating from true
BooleanArrays ==
    {Arr(<<Bool(TRUE), Bool(FALSE), Bool(TRUE)>>), Arr(<<Bool(FALSE), Bool(TRUE)>>),
     Arr([i \in 1..9 |-> Bool(i % 2 = 1)])}

Values == Leaves \cup Flat \cup Nested \cup BooleanArrays

\* a value tree of null, booleans, numbers, strings, binary, arrays and
\* string-keyed objects: no undefined and no hole in it
RECURSIVE Representable(_)
Representable(v) ==
    CASE v.t \in {"undefined", "empty", "bigint"} -> FALSE
      [] v.t = "arr" -> \A i \in 1..Len(v.items) : Representable(v.items[i])
      [] v.t = "obj" -> \A i \in 1..Len(v.members) : Representable(v.members[i].val)
      [] OTHER -> TRUE

----------------------------------------------------------------------------
(* Encoding a value, then decoding the bytes, whole or one byte short *)

Init ==
    /\ pc = "start"
    /\ input \in Values
    /\ writer = NewWriter(DefaultWriterSize)
    /\ buffer = View(<<>>)
    /\ result = Ret(Undefined, 0)
    /\ NoBackend

\* writeBeve(input)
WriteBeve ==
    /\ pc = "start"
    /\ writer' = write_value(writer, input)
    /\ buffer' = View(Written(writer'))
    /\ pc' = IF writer'.thrown = "none" THEN "encoded" ELSE "encode_threw"
    /\ UNCHANGED <<input, result>>
    /\ UNCHANGED backendVars

\* readBeve(encoded)
ReadBeve ==
    /\ pc = "encoded"
    /\ result' = readBeve(buffer)
    /\ pc' = "decoded"
    /\ UNCHANGED <<input, writer, buffer>>
    /\ UNCHANGED backendVars

\* readBeve(encoded.slice(0, encoded.length - 1))
ReadTruncated ==
    /\ pc = "encoded"
    /\ buffer' = View(SubSeq(buffer.ab, 1, buffer.length - 1))
    /\ result' = readBeve(buffer')
    /\ pc' = "truncated"
    /\ UNCHANGED <<input, writer>>
    /\ UNCHANGED backendVars

\* the bytes before an encoded value in a larger ArrayBuffer
LeadingBytes == {<<255>>, <<0, 0, 0, 0>>}

\* a Uint8Array over bytes that starts after lead in an ArrayBuffer with
\* eight more bytes behind it: new Uint8Array(ab, lead.length, bytes.length)
ViewInside(lead, bytes) ==
    [ab |-> lead \o bytes \o <<0, 0, 0, 0, 0, 0, 0, 0>>, byteOffset |-> Len(lead),
     length |-> Len(bytes)]

\* readBeve(view) for a view of the encoded bytes at a non-zero byteOffset
ReadView ==
    /\ pc = "encoded"
    /\ \E lead \in LeadingBytes : buffer' = ViewInside(lead, buffer.ab)
    /\ result' = readBeve(buffer')
    /\ pc' = "view"
    /\ UNCHANGED <<input, writer>>
    /\ UNCHANGED backendVars

Next == WriteBeve \/ ReadBeve \/ ReadTruncated \/ ReadView

Spec == Init /\ [][Next]_vars

----------------------------------------------------------------------------
(* Decoding buffers that no encoder of this library wrote: every header    *)
(* byte before each of a few payloads, and the prefixes of an encoded UUID,*)
(* duration and timestamp.                                                 *)

\* nothing; a zero size; one member "a": null; two elements of one byte;
\* two elements of up to eight bytes
Payloads ==
    {<<>>, <<0>>, <<4, 4, 97, 0>>, <<8, 1, 2>>,
     <<8, 1, 2, 3, 4, 5, 6, 7, 8, 9, 10, 11, 12, 13, 14, 15, 128>>}

\* 550e8400-e29b-41d4-a716-446655440000, version 4
UuidBytes == <<85, 14, 132, 0, 226, 155, 65, 212, 167, 22, 68, 102, 85, 68, 0, 0>>

\* 3600 s, 500000000 ns
DurationWire ==
    <<createExtensionHeader(DURATION), 16, 14, 0, 0, 0, 0, 0, 0, 0, 101, 205, 29>>

\* 1697550000 s, 123456789 ns, without and with the timezone -300
TimestampWire(tz) ==
    <<createExtensionHeader(TIMESTAMP), IF tz THEN 3 ELSE 2,
      176, 154, 46, 101, 0, 0, 0, 0, 21, 205, 91, 7>>
    \o (IF tz THEN <<212, 254>> ELSE <<>>)

Prefixes(bytes) == {SubSeq(bytes, 1, n) : n \in 1..Len(bytes)}

\* [true, false, true] as a typed boolean array with its elements packed
\* into one byte
PackedBooleansWire == <<28, 12, 5>>

\* the number 5 at every kind and width read_value has a reader for:
\* uint8/16/32/64, int8/16/32/64, float32, float64
EncodingsOfFive ==
    {<<17, 5>>, <<49, 5, 0>>, <<81, 5, 0, 0, 0>>, <<113, 5, 0, 0, 0, 0, 0, 0, 0>>,
     <<9, 5>>, <<41, 5, 0>>, <<73, 5, 0, 0, 0>>, <<105, 5, 0, 0, 0, 0, 0, 0, 0>>,
     <<65, 0, 0, 160, 64>>, <<97, 0, 0, 0, 0, 0, 0, 20, 64>>}

WireSamples ==
    {<<h>> \o p : h \in 0..255, p \in Payloads}
    \cup {PackedBooleansWire} \cup EncodingsOfFive
    \cup Prefixes(<<createExtensionHeader(UUID), 4>> \o UuidBytes)
    \cup Prefixes(DurationWire)
    \cup Prefixes(TimestampWire(FALSE)) \cup Prefixes(TimestampWire(TRUE))

InitDecode ==
    /\ pc = "wire"
    /\ buffer \in {View(b) : b \in WireSamples}
    /\ input = Undefined
    /\ writer = NewWriter(DefaultWriterSize)
    /\ result = Ret(Undefined, 0)
    /\ NoBackend

\* readBeve(buffer)
ReadWire ==
    /\ pc = "wire"
    /\ result' = readBeve(buffer)
    /\ pc' = "readBeve"
    /\ UNCHANGED <<input, writer, buffer>>
    /\ UNCHANGED backendVars

\* decodeUUID(buffer, {value: 1}) after a UUID header
DecodeUUID ==
    /\ pc \in {"wire", "ext_encoded"}
    /\ Byte(buffer, 0) = createExtensionHeader(UUID)
    /\ result' = decodeUUID(buffer, 1)
    /\ pc' = "decodeUUID"
    /\ UNCHANGED <<input, writer, buffer>>
    /\ UNCHANGED backendVars

\* decodeDuration(buffer, {value: 1}) after a duration header
DecodeDuration ==
    /\ pc \in {"wire", "ext_encoded"}
    /\ Byte(buffer, 0) = createExtensionHeader(DURATION)
    /\ result' = decodeDuration(buffer, 1)
    /\ pc' = "decodeDuration"
    /\ UNCHANGED <<input, writer, buffer>>
    /\ UNCHANGED backendVars

\* decodeTimestamp(buffer, {value: 1}) after a timestamp header
DecodeTimestamp ==
    /\ pc \in {"wire", "ext_encoded"}
    /\ Byte(buffer, 0) = createExtensionHeader(TIMESTAMP)
    /\ result' = decodeTimestamp(buffer, 1)
    /\ pc' = "decodeTimestamp"
    /\ UNCHANGED <<input, writer, buffer>>
    /\ UNCHANGED backendVars

\* decodeTypedObjectArray(buffer, {value: 1}) after a typed-array header
DecodeTypedObjectArray ==
    /\ pc \in {"wire", "ext_encoded"}
    /\ Byte(buffer, 0) = createExtensionHeader(TYPED_ARRAY)
    /\ result' = decodeTypedObjectArray(buffer, 1)
    /\ pc' = "decodeTypedObjectArray"
    /\ UNCHANGED <<input, writer, buffer>>
    /\ UNCHANGED backendVars

NextDecode ==
    ReadWire \/ DecodeUUID \/ DecodeDuration \/ DecodeTimestamp \/ DecodeTypedObjectArray

SpecDecode == InitDecode /\ [][NextDecode]_vars

----------------------------------------------------------------------------
(* The extensions: each encoder on a fresh Writer, then the decoder on the *)
(* bytes written, and the helpers that make timestamps.                    *)

\* 0, the spec's instance, 2^31 - 1, 2^31, 2^32, 2^53 - 1, -1, a pre-epoch
\* instance, -2^63
SecondsSamples ==
    {JSInt(0), JSInt(1697550000), JSNat(AllOnes(31)), JSNat(Pow2(31)), JSNat(Pow2(32)),
     JSNat(AllOnes(53)), JSInt(0 - 1), JSInt(0 - 1697550000), JSNeg(Pow2(63))}

NanosSamples == {JSInt(0), JSInt(123456789), JSInt(999999999)}

TimezoneSamples == {Null, JSInt(0 - 300), JSInt(330), JSInt(0 - 32768), JSInt(32767)}

TimestampSamples ==
    {Timestamp(s, n, tz) : s \in SecondsSamples, n \in NanosSamples, tz \in TimezoneSamples}

DurationSamples == {Duration(s, n) : s \in SecondsSamples, n \in NanosSamples}

\* the spec's instance, sixteen 0x00, sixteen 0xFF, each under several
\* version bytes
UuidSamples ==
    {Uuid(JSInt(v), b) : v \in {0, 1, 4, 5, 15, 255},
                         b \in {UuidBytes, [i \in 1..16 |-> 0], [i \in 1..16 |-> 255]}}

\* arrays of objects of one key set (one with the keys in another order, one
\* with a non-ASCII key, one holding a negative integer, two without keys),
\* and arrays encodeTypedObjectArray refuses
ObjectArraySamples ==
    {Arr(<<Obj(<<Member(<<97>>, JSInt(1))>>)>>),
     Arr(<<Obj(<<Member(<<97>>, JSInt(1)), Member(<<98>>, Str(<<120>>))>>),
           Obj(<<Member(<<98>>, Str(<<121>>)), Member(<<97>>, JSInt(2))>>)>>),
     Arr(<<Obj(<<Member(<<233>>, Null)>>)>>),
     Arr(<<Obj(<<Member(<<97>>, JSInt(0 - 5))>>)>>),
     Arr(<<Obj(<<Member(<<97>>, Bool(TRUE))>>), Obj(<<Member(<<97>>, JSInt(0 - 5))>>)>>),
     Arr(<<Obj(<<>>)>>), Arr(<<Obj(<<>>), Obj(<<>>)>>),
     Arr(<<>>), Arr(<<JSInt(1)>>),
     Arr(<<Obj(<<Member(<<97>>, JSInt(1))>>), Obj(<<Member(<<98>>, JSInt(1))>>)>>)}

\* date.getTime() of new Date(ms)
DateSamples == {[t |-> "date", ms |-> JSInt(ms)] : ms \in {0, 999, 1500, 0 - 1, 0 - 1500, 0 - 2000}}

\* the arguments of addToTimestamp
AddSamples ==
    {[t |-> "add", ts |-> Timestamp(JSInt(10), n, Null), seconds |-> JSInt(ds),
      nanoseconds |-> JSInt(dn)] :
        n \in {JSInt(0), JSInt(500000000)}, ds \in {0, 0 - 20},
        dn \in {0, 600000000, 0 - 500000000, 0 - 600000000, 0 - 1500000000}}

\* the argument of encodeMilliseconds
MillisecondSamples == {[t |-> "ms", ms |-> JSInt(ms)] : ms \in {0, 999, 1500, 0 - 1, 0 - 1500}}

InitExt ==
    /\ pc = "ext"
    /\ input \in TimestampSamples \cup DurationSamples \cup UuidSamples
                 \cup ObjectArraySamples \cup DateSamples \cup AddSamples
                 \cup MillisecondSamples
    /\ writer = NewWriter(DefaultWriterSize)
    /\ buffer = View(<<>>)
    /\ result = Ret(Undefined, 0)
    /\ NoBackend

\* the state after an encoder returned or threw: the bytes are
\* writer.buffer.slice(0, writer.offset)
Encoded(w) ==
    /\ writer' = w
    /\ buffer' = View(Written(w))
    /\ pc' = IF w.thrown = "none" THEN "ext_encoded" ELSE "ext_threw"
    /\ UNCHANGED <<input, result>>
    /\ UNCHANGED backendVars

EncodeTimestamp == pc = "ext" /\ input.t = "timestamp" /\ Encoded(encodeTimestamp(input, writer))

EncodeDuration == pc = "ext" /\ input.t = "duration" /\ Encoded(encodeDuration(input, writer))

EncodeMilliseconds == pc = "ext" /\ input.t = "ms" /\ Encoded(encodeMilliseconds(input.ms, writer))

EncodeUUID == pc = "ext" /\ input.t = "uuid" /\ Encoded(encodeUUID(input, writer))

EncodeTypedObjectArray ==
    pc = "ext" /\ input.t = "arr" /\ Encoded(encodeTypedObjectArray(input, writer))

DateToTimestamp ==
    /\ pc = "ext"
    /\ input.t = "date"
    /\ result' = Ret(dateToTimestamp(input.ms), 0)
    /\ pc' = "dateToTimestamp"
    /\ UNCHANGED <<input, writer, buffer>>
    /\ UNCHANGED backendVars

AddToTimestamp ==
    /\ pc = "ext"
    /\ input.t = "add"
    /\ result' = Ret(addToTimestamp(input.ts, input.seconds, input.nanoseconds), 0)
    /\ pc' = "addToTimestamp"
    /\ UNCHANGED <<input, writer, buffer>>
    /\ UNCHANGED backendVars

NextExt ==
    \/ EncodeTimestamp \/ EncodeDuration \/ EncodeMilliseconds \/ EncodeUUID
    \/ EncodeTypedObjectArray \/ DateToTimestamp \/ AddToTimestamp
    \/ DecodeTimestamp \/ DecodeDuration \/ DecodeUUID \/ DecodeTypedObjectArray

SpecExt == InitExt /\ [][NextExt]_vars

----------------------------------------------------------------------------
(* Sizes the compressed scheme is run on: every N up to MaxSmallSize and   *)
(* the doubles around each tag boundary.                                   *)

MaxSmallSize == 24

\* 2^k - 1, 2^k, 2^k + 1
Around(k) == {AllOnes(k), Pow2(k), <<1>> \o Zeros(k - 1) \o <<1>>}

SizeSamples ==
    {JSInt(n) : n \in 0..MaxSmallSize}
    \cup {JSNat(m) : m \in Around(6) \cup Around(8) \cup Around(14) \cup Around(29)
                          \cup Around(30) \cup Around(31) \cup Around(32)}
    \cup {JSNat(Pow2(53)), JSNat(Pow2(61)), JSNat(Zeros(9) \o AllOnes(53))}

InitVarSize ==
    /\ pc = "size"
    /\ input \in SizeSamples
    /\ writer = NewWriter(DefaultWriterSize)
    /\ buffer = View(<<>>)
    /\ result = Ret(Undefined, 0)
    /\ NoBackend

\* writeCompressed(writer, N) on a fresh Writer
WriteCompressed ==
    /\ pc = "size"
    /\ writer' = writeCompressed(writer, input)
    /\ buffer' = View(Written(writer'))
    /\ pc' = IF writer'.thrown = "none" THEN "sized" ELSE "threw"
    /\ UNCHANGED <<input, result>>
    /\ UNCHANGED backendVars

\* read_compressed(buffer, {value: 0}) on the bytes written
ReadCompressed ==
    /\ pc = "sized"
    /\ result' = read_compressed(buffer, 0)
    /\ pc' = "read"
    /\ UNCHANGED <<input, writer, buffer>>
    /\ UNCHANGED backendVars

NextVarSize == WriteCompressed \/ ReadCompressed

SpecVarSize == InitVarSize /\ [][NextVarSize]_vars

----------------------------------------------------------------------------
(* A Writer of a small initial size under a sequence of appends.  input    *)
(* keeps the size the Writer was made with and, call by call, the bytes    *)
(* the call is to append (none for a call whose argument is rejected).     *)

WriterSizes == {0, 1, 3, DefaultWriterSize}

MaxAppends == 3

\* 7; 256 is rejected
Uint8Calls == {<<JSInt(7), <<7>>>>, <<JSInt(256), <<>>>>}

\* 300; -1 is rejected
Uint16Calls == {<<JSInt(300), <<44, 1>>>>, <<JSInt(0 - 1), <<>>>>}

\* 70000
Uint32Calls == {<<JSInt(70000), <<112, 17, 1, 0>>>>}

\* 2^32 + 1
Uint64Calls == {<<JSNat(<<1>> \o Zeros(31) \o <<1>>), <<1, 0, 0, 0, 1, 0, 0, 0>>>>}

\* "e-acute" as UTF-8; -5 as int32; 0.5 as float64
ValueCalls ==
    {<<Str(<<233>>), <<195, 169>>>>, <<JSInt(0 - 5), <<251, 255, 255, 255>>>>,
     <<F64(<<0, 0, 0, 0, 0, 0, 224, 63>>), <<0, 0, 0, 0, 0, 0, 224, 63>>>>}

\* the bytes of a Uint8Array written with buffer.set
SetCalls == {<<<<>>, <<>>>>, <<<<1, 2, 3>>, <<1, 2, 3>>>>}

\* 20000 as a 4-byte size; 2^40 as an 8-byte size
SizeCalls ==
    {<<JSInt(20000), <<130, 56, 1, 0>>>>, <<JSNat(Pow2(40)), <<3, 0, 0, 0, 0, 4, 0, 0>>>>}

InitWriter ==
    /\ pc = "writer"
    /\ \E size \in WriterSizes :
          /\ writer = NewWriter(size)
          /\ input = [t |-> "appends", size |-> size, chunks |-> <<>>]
    /\ buffer = View(<<>>)
    /\ result = Ret(Undefined, 0)
    /\ NoBackend

\* the state after an append call that left the Writer w: an exception is
\* caught by the caller, who goes on using the Writer
Appended(w, bytes) ==
    /\ Len(input.chunks) < MaxAppends
    /\ pc # "finished"
    /\ writer' = [w EXCEPT !.thrown = "none"]
    /\ input' = [input EXCEPT !.chunks = Append(@, bytes)]
    /\ result' = IF w.thrown = "none" THEN Ret(Undefined, w.offset)
                 ELSE Raise(w.thrown, w.offset)
    /\ pc' = IF w.thrown = "none" THEN "appended" ELSE "append_threw"
    /\ UNCHANGED buffer
    /\ UNCHANGED backendVars

AppendUint8 == \E c \in Uint8Calls : Appended(append_uint8(writer, c[1]), c[2])

AppendUint16 == \E c \in Uint16Calls : Appended(append_uint16(writer, c[1]), c[2])

AppendUint32 == \E c \in Uint32Calls : Appended(append_uint32(writer, c[1]), c[2])

AppendUint64 == \E c \in Uint64Calls : Appended(append_uint64(writer, c[1]), c[2])

\* writer.append(value)
AppendValue == \E c \in ValueCalls : Appended(append(writer, c[1]), c[2])

\* writer.ensureCapacity(n); writer.buffer.set(bytes, writer.offset);
\* writer.offset += n
SetBytes == \E c \in SetCalls : Appended(PutBytes(ensureCapacity(writer, Len(c[1])), c[1]), c[2])

\* writeCompressed(writer, N)
WriteSize == \E c \in SizeCalls : Appended(writeCompressed(writer, c[1]), c[2])

\* writer.buffer.slice(0, writer.offset), what writeBeve returns
Finish ==
    /\ pc \in {"appended", "append_threw"}
    /\ buffer' = View(Written(writer))
    /\ pc' = "finished"
    /\ UNCHANGED <<input, writer, result>>
    /\ UNCHANGED backendVars

NextWriter ==
    \/ AppendUint8 \/ AppendUint16 \/ AppendUint32 \/ AppendUint64
    \/ AppendValue \/ SetBytes \/ WriteSize \/ Finish

SpecWriter == InitWriter /\ [][NextWriter]_vars

----------------------------------------------------------------------------
(* The backend selection of index.ts over the loader of wasm-loader.ts.    *)
(* JavaScript runs one piece of code at a time: an action is the code that *)
(* runs from a call, or from the resumption after an await, up to the next *)
(* await or return.  A module is "null" or "module"; a promise is its      *)
(* place in gets or in inits, 0 for none.                                  *)

codecVars == <<pc, input, writer, buffer, result>>

\* getWasmModule() that loads again after a load was tried
getWasmModuleRetrying(module, attempted) ==
    IF module # "null" THEN "loaded"
    ELSE IF ~hasWasmSupport THEN "unsupported"
    ELSE IF isNode THEN "load"
    ELSE "runtime"

\* getWasmModule() up to its first await: return the module loaded, return
\* null after an attempt, return null without WebAssembly, start the load
\* (Node.js; the browser is alike), or fail on an unknown runtime
getWasmModule(module, attempted) ==
    IF module # "null" THEN "loaded"
    ELSE IF attempted THEN "tried"
    ELSE IF ~hasWasmSupport THEN "unsupported"
    ELSE IF isNode THEN "load"
    ELSE "runtime"

\* a call of getWasmModule(): its promise is appended to gets
GetStarted ==
    LET does == getWasmModule(wasmModule, wasmLoadAttempted)
    IN /\ gets' = Append(gets, [state |-> IF does = "load" THEN "loading" ELSE "resolved",
                                 value |-> IF does = "loaded" THEN wasmModule ELSE "null",
                                 why |-> does,
                                 failed |-> does = "runtime"])
       /\ wasmLoadAttempted' = (wasmLoadAttempted \/ does \in {"unsupported", "load", "runtime"})
       /\ wasmLoadError' =
            CASE does = "unsupported" -> "WebAssembly not supported in this environment"
              [] does = "runtime" -> "Unknown runtime environment"
              [] OTHER -> wasmLoadError
       /\ UNCHANGED <<hasWasmSupport, isNode, wasmModule>>

\* loadWasmNode() ends, well or not, and the getWasmModule() that awaited it
\* resumes
LoadSettles ==
    \E i \in 1..Len(gets), ok \in BOOLEAN :
        /\ gets[i].state = "loading"
        /\ gets' = [gets EXCEPT ![i] = [state |-> "resolved",
                                        value |-> IF ok THEN "module" ELSE "null",
                                        why |-> "load",
                                        failed |-> ~ok]]
        /\ wasmModule' = IF ok THEN "module" ELSE wasmModule
        /\ wasmLoadError' = IF ok THEN wasmLoadError ELSE "Failed to load WASM in Node.js"
        /\ UNCHANGED <<codecVars, indexVars, hasWasmSupport, isNode, wasmLoadAttempted,
                       inits, calls, wasmReplies>>

\* resetWasmModule()
resetWasmModule ==
    /\ wasmModule' = "null"
    /\ wasmLoadAttempted' = FALSE
    /\ wasmLoadError' = "null"
    /\ UNCHANGED <<hasWasmSupport, isNode>>

\* getWasmDiagnostics().wasmLoaded ? 'WASM' : 'TypeScript'
getImplementationInfo == IF wasmModule # "null" THEN "WASM" ELSE "TypeScript"

\* what initWasm() returns: false, true, or a promise
initWasm ==
    IF wasmDisabled THEN "false"
    ELSE IF cachedWasmModule # "null" THEN "true"
    ELSE "promise"

\* the promise initWasm() returns: the one in flight, or a new one
InitWasmPromise == IF wasmInitPromise # 0 THEN wasmInitPromise ELSE Len(inits) + 1

\* a call of initWasm(), up to the await of getWasmModule() in its body
InitWasmCalled ==
    CASE initWasm = "false" -> UNCHANGED <<indexVars, loaderVars, gets, inits>>
      [] initWasm = "true" ->
            /\ wasmInitialized' = TRUE
            /\ UNCHANGED <<wasmInitPromise, cachedWasmModule, wasmDisabled, loaderVars,
                           gets, inits>>
      [] initWasm = "promise" /\ wasmInitPromise # 0 ->
            UNCHANGED <<indexVars, loaderVars, gets, inits>>
      [] OTHER ->
            /\ GetStarted
            /\ inits' = Append(inits, [state |-> "pending", get |-> Len(gets) + 1,
                                       value |-> FALSE])
            /\ wasmInitPromise' = Len(inits) + 1
            /\ UNCHANGED <<wasmInitialized, cachedWasmModule, wasmDisabled>>

\* the body of initWasm() resumes with what getWasmModule() resolved to
InitWasmFinishes ==
    \E k \in 1..Len(inits) :
        /\ inits[k].state = "pending"
        /\ gets[inits[k].get].state = "resolved"
        /\ cachedWasmModule' = gets[inits[k].get].value
        /\ wasmInitialized' = TRUE
        /\ wasmInitPromise' = 0
        /\ inits' = [inits EXCEPT ![k] = [state |-> "resolved", get |-> @.get,
                                          value |-> gets[@.get].value # "null"]]
        /\ UNCHANGED <<codecVars, wasmDisabled, loaderVars, gets, calls, wasmReplies>>

\* a marshal that never waits for the module
NeverNeedsInit(disabled, initialized, cached) == FALSE

\* !wasmDisabled && (!wasmInitialized || !cachedWasmModule)
NeedsInit(disabled, initialized, cached) == ~disabled /\ (~initialized \/ cached = "null")

\* a marshal that uses whatever module is cached
UsesWasmWhenCached(disabled, cached) == cached # "null"

\* !wasmDisabled && cachedWasmModule
UsesWasm(disabled, cached) == ~disabled /\ cached # "null"

\* what a call into the WASM module comes to: data, an error field, no data
\* and no error, or an exception
WasmOutcomes == {"data", "error", "nodata", "throws"}

MarshalSamples == {JSInt(42), JSInt(0 - 42)}

UnmarshalSamples == {<<17, 42>>}

\* writeBeve(data) as the caller of marshal sees it, for each sample
MarshalResults ==
    [data \in MarshalSamples |->
        LET w == writeBeve(data)
        IN IF w.thrown = "none" THEN [thrown |-> "none", val |-> Bin(Written(w))]
           ELSE [thrown |-> w.thrown, val |-> Undefined]]

\* readBeve(bytes) as the caller of unmarshal sees it, for each sample
UnmarshalResults ==
    [bytes \in UnmarshalSamples |->
        LET r == readBeve(View(bytes))
        IN [thrown |-> r.thrown, val |-> r.val]]

\* return writeBeve(data) / return readBeve(bytes)
TsResult(op, data) ==
    IF op \in {"marshal", "marshalSync"} THEN MarshalResults[data] ELSE UnmarshalResults[data]

\* a marshal that passes the failure of the WASM call on to its caller
ServedByRejecting(outcome) ==
    IF outcome = "data" THEN "WASM"
    ELSE IF outcome = "none" THEN "TypeScript"
    ELSE "rejected"

\* the second half of marshal / unmarshal: return result.data of the WASM
\* module; for every other outcome of the WASM call, and without one,
\* return writeBeve(data) / return readBeve(bytes)
ServedBy(outcome) == IF outcome = "data" THEN "WASM" ELSE "TypeScript"

\* what the call c gave its caller
ResultOf(c) ==
    CASE c.served = "WASM" ->
            [thrown |-> "none", val |-> [t |-> "wasm", op |-> c.op, of |-> c.data]]
      [] c.served = "TypeScript" -> TsResult(c.op, c.data)
      [] c.served = "rejected" -> [thrown |-> "WASM call failed", val |-> Undefined]
      [] OTHER -> [thrown |-> "none", val |-> c.result]

\* o is what the second half of a call meets: no WASM call, or the answer
\* of the module, which answers one input in one way
Outcome(op, data, o) ==
    IF UsesWasm(wasmDisabled, cachedWasmModule)
    THEN /\ o \in WasmOutcomes
         /\ \A r \in wasmReplies : (r[1] = op /\ r[2] = data) => r[3] = o
         /\ wasmReplies' = wasmReplies \cup {<<op, data, o>>}
    ELSE /\ o = "none"
         /\ UNCHANGED wasmReplies

\* a call of the client: what it awaits, whether disableWasm() had run when
\* it was made, what its WASM call came to, which codec served it, and
\* what initWasm() or getWasmModule() resolved to
Call(op, data, wait) ==
    [op |-> op, data |-> data, state |-> "awaiting", wait |-> wait,
     disabled |-> wasmDisabled, outcome |-> "none", served |-> "pending",
     result |-> Undefined]

Done(c, outcome, served, res) ==
    [c EXCEPT !.state = "done", !.outcome = outcome, !.served = served, !.result = res]

MaxCalls == 2

\* marshal(data) / unmarshal(bytes) up to its await, or to its end when it
\* has nothing to wait for
CodecCalled(op, data) ==
    /\ Len(calls) < MaxCalls
    /\ IF NeedsInit(wasmDisabled, wasmInitialized, cachedWasmModule)
       THEN /\ InitWasmCalled
            /\ calls' = Append(calls, Call(op, data, IF initWasm = "promise"
                                                     THEN InitWasmPromise ELSE 0))
            /\ UNCHANGED wasmReplies
       ELSE /\ \E o \in WasmOutcomes \cup {"none"} :
                  /\ Outcome(op, data, o)
                  /\ calls' = Append(calls, Done(Call(op, data, 0), o, ServedBy(o), Undefined))
            /\ UNCHANGED <<indexVars, loaderVars, gets, inits>>
    /\ UNCHANGED codecVars

Marshal == \E data \in MarshalSamples : CodecCalled("marshal", data)

Unmarshal == \E bytes \in UnmarshalSamples : CodecCalled("unmarshal", bytes)

\* marshal / unmarshal of calls[i] resumes after await initWasm() and meets o
CodecResumed(i, op, data, o) ==
    /\ calls[i].state = "awaiting"
    /\ calls[i].op = op
    /\ calls[i].data = data
    /\ IF calls[i].wait = 0 THEN TRUE ELSE inits[calls[i].wait].state = "resolved"
    /\ Outcome(op, data, o)
    /\ calls' = [calls EXCEPT ![i] = Done(calls[i], o, ServedBy(o), Undefined)]
    /\ UNCHANGED <<codecVars, indexVars, loaderVars, gets, inits>>

CodecResumes ==
    \E i \in 1..Len(calls), o \in WasmOutcomes \cup {"none"} :
        \/ \E data \in MarshalSamples : CodecResumed(i, "marshal", data, o)
        \/ \E bytes \in UnmarshalSamples : CodecResumed(i, "unmarshal", bytes, o)

\* marshalSync(data) / unmarshalSync(bytes)
SyncCalled(op, data) ==
    /\ Len(calls) < MaxCalls
    /\ IF ~wasmDisabled /\ ~wasmInitialized THEN InitWasmCalled
       ELSE UNCHANGED <<indexVars, loaderVars, gets, inits>>
    /\ calls' = Append(calls, Done(Call(op, data, 0), "none", "TypeScript", Undefined))
    /\ UNCHANGED <<codecVars, wasmReplies>>

MarshalSync == SyncCalled("marshalSync", JSInt(42))

UnmarshalSync == SyncCalled("unmarshalSync", <<17, 42>>)

\* await initWasm() by the client
InitWasm ==
    /\ Len(calls) < MaxCalls
    /\ InitWasmCalled
    /\ calls' = Append(calls,
            IF initWasm = "promise" THEN Call("initWasm", Undefined, InitWasmPromise)
            ELSE Done(Call("initWasm", Undefined, 0), "none", "none", Bool(initWasm = "true")))
    /\ UNCHANGED <<codecVars, wasmReplies>>

InitWasmResumes ==
    \E i \in 1..Len(calls) :
        /\ calls[i].state = "awaiting"
        /\ calls[i].op = "initWasm"
        /\ inits[calls[i].wait].state = "resolved"
        /\ calls' = [calls EXCEPT ![i] =
                Done(calls[i], "none", "none", Bool(inits[calls[i].wait].value))]
        /\ UNCHANGED <<codecVars, indexVars, loaderVars, gets, inits, wasmReplies>>

\* await getWasmModule() by the client
GetWasmModule ==
    /\ Len(calls) < MaxCalls
    /\ GetStarted
    /\ calls' = Append(calls, Call("getWasmModule", Undefined, Len(gets) + 1))
    /\ UNCHANGED <<codecVars, indexVars, inits, wasmReplies>>

GetWasmModuleResumes ==
    \E i \in 1..Len(calls) :
        /\ calls[i].state = "awaiting"
        /\ calls[i].op = "getWasmModule"
        /\ gets[calls[i].wait].state = "resolved"
        /\ calls' = [calls EXCEPT ![i] =
                Done(calls[i], "none", "none", gets[calls[i].wait].value)]
        /\ UNCHANGED <<codecVars, indexVars, loaderVars, gets, inits, wasmReplies>>

\* disableWasm()
DisableWasm ==
    /\ wasmDisabled' = TRUE
    /\ cachedWasmModule' = "null"
    /\ wasmInitialized' = FALSE
    /\ resetWasmModule
    /\ UNCHANGED <<codecVars, wasmInitPromise, gets, inits, calls, wasmReplies>>

\* index.ts has been imported: its last statement, void initWasm(), has run
\* up to the await of getWasmModule()
InitBackend ==
    /\ pc = "index"
    /\ input = Undefined
    /\ writer = NewWriter(DefaultWriterSize)
    /\ buffer = View(<<>>)
    /\ result = Ret(Undefined, 0)
    /\ hasWasmSupport \in BOOLEAN
    /\ isNode \in BOOLEAN
    /\ wasmInitialized = FALSE
    /\ cachedWasmModule = "null"
    /\ wasmDisabled = FALSE
    /\ wasmModule = "null"
    /\ wasmLoadAttempted = TRUE
    /\ LET does == getWasmModule("null", FALSE)
       IN /\ gets = <<[state |-> IF does = "load" THEN "loading" ELSE "resolved",
                       value |-> "null", why |-> does, failed |-> does = "runtime"]>>
          /\ wasmLoadError =
                CASE does = "unsupported" -> "WebAssembly not supported in this environment"
                  [] does = "runtime" -> "Unknown runtime environment"
                  [] OTHER -> "null"
    /\ inits = <<[state |-> "pending", get |-> 1, value |-> FALSE]>>
    /\ wasmInitPromise = 1
    /\ calls = <<>>
    /\ wasmReplies = {}

NextBackend ==
    \/ LoadSettles \/ InitWasmFinishes
    \/ Marshal \/ Unmarshal \/ CodecResumes
    \/ MarshalSync \/ UnmarshalSync
    \/ InitWasm \/ InitWasmResumes
    \/ GetWasmModule \/ GetWasmModuleResumes
    \/ DisableWasm

SpecBackend == InitBackend /\ [][NextBackend]_vars

\* the tag, 0..3, of the smallest width whose exclusive maximum exceeds N
SmallestTag(N) ==
    IF Len(Mag(N)) <= 6 THEN 0
    ELSE IF Len(Mag(N)) <= 14 THEN 1
    ELSE IF Len(Mag(N)) <= 30 THEN 2 ELSE 3

TagWidth(tag) == CASE tag = 0 -> 1 [] tag = 1 -> 2 [] tag = 2 -> 4 [] OTHER -> 8

\* (N << 2) | tag, little-endian, over the width of the tag
CompressedBytes(N) ==
    BytesOf(Pad(NatBits(SmallestTag(N)), 2) \o Mag(N), TagWidth(SmallestTag(N)))

\* C7: for every N in [0, 2^62) writeCompressed writes (N << 2) | tag,
\* little-endian, with the smallest tag whose maximum exceeds N.
C7_SmallestTagWritten ==
    pc \in {"sized", "threw", "read"} =>
        /\ writer.thrown = "none"
        /\ Written(writer) = CompressedBytes(input)

\* C8: read_compressed on the bytes of writeCompressed(N) returns N and
\* advances the cursor by the number of bytes written.
C8_CompressedRoundTrip ==
    /\ pc # "threw"
    /\ pc = "read" =>
        /\ result.thrown = "none"
        /\ result.val = input
        /\ result.cur = writer.offset

----------------------------------------------------------------------------
(* Properties of the round trip (Spec) *)

IsFraction(v) == v.t = "num" /\ v.k = "f64"

\* numbers equal by magnitude and sign, whatever the width read and whether
\* a number or a bigint came back; the two zeros are taken as equal
NumEq(a, b) ==
    IF IsFraction(a) \/ IsFraction(b) THEN a = b
    ELSE Mag(a) = Mag(b) /\ (a.neg = b.neg \/ Mag(a) = <<>>)

\* value equality of two trees: numbers by NumEq, object members in key
\* order, array elements in order
RECURSIVE ValueEq(_, _)
ValueEq(a, b) ==
    CASE a.t \in {"num", "bigint"} /\ b.t \in {"num", "bigint"} -> NumEq(a, b)
      [] a.t # b.t -> FALSE
      [] a.t = "arr" ->
            /\ Len(a.items) = Len(b.items)
            /\ \A i \in 1..Len(a.items) : ValueEq(a.items[i], b.items[i])
      [] a.t = "obj" ->
            /\ Len(a.members) = Len(b.members)
            /\ \A i \in 1..Len(a.members) :
                    /\ a.members[i].key = b.members[i].key
                    /\ ValueEq(a.members[i].val, b.members[i].val)
      [] OTHER -> a = b

\* C1: for every representable value tree v, readBeve(writeBeve(v)) is
\* value-equal to v: the encode returns bytes, the decode returns a value,
\* and that value equals v (numbers by magnitude and sign, keys in order,
\* elements in order).
C1_RoundTrip ==
    Representable(input) =>
        /\ pc # "encode_threw"
        /\ pc = "decoded" => (result.thrown = "none" /\ ValueEq(result.val, input))

\* C2: decoding a valid encoded buffer with its last byte removed raises an
\* error; it never returns a value.
C2_TruncatedRaises ==
    (pc = "truncated" /\ Representable(input)) => result.thrown # "none"

\* C5: writeBeve never fails on a well-formed value tree: no null, boolean,
\* number (negative integers of every width included), string, binary blob,
\* array or string-keyed object makes it throw.
C5_EncodeNeverFails ==
    (pc # "start" /\ Representable(input)) => writer.thrown = "none"

\* v fits the unsigned (non-negative v) or signed (negative v) integer of
\* 8 * 2^index bits
Contains(index, v) ==
    LET w == 8 * <<1, 2, 4, 8>>[index + 1]
    IN IF IsNegative(v) THEN MagLeqPow2(v, w - 1) ELSE Len(Mag(v)) <= w

\* the header of the representation rule: float64 for a non-finite or
\* non-integral number, else the kind by sign and the least index that
\* contains the value
ExpectedNumberHeader(v) ==
    IF IsFraction(v) THEN 1 + 3 * 32
    ELSE LET index == CHOOSE i \in 0..3 : Contains(i, v) /\ \A j \in 0..(i - 1) : ~Contains(j, v)
         IN 1 + (IF IsNegative(v) THEN 1 ELSE 2) * 8 + index * 32

\* C6: for every number (an integer being one that some 64-bit width
\* contains) the first byte the encoder writes is the header of the rule:
\* float64 for a non-finite or non-integral value, the smallest signed width
\* for a negative integer, the smallest unsigned width for a non-negative one.
\* (The header is in the Writer before the payload call; whether that call
\* succeeds is the subject of C5.)
C6_NumberHeader ==
    (pc # "start" /\ input.t = "num" /\ (IsFraction(input) \/ Contains(3, input))) =>
        /\ writer.data # <<>>
        /\ writer.data[1] = ExpectedNumberHeader(input)

\* 65535, the largest value of the uint16 width, written under the header
\* 1 | (2 << 3) | (1 << 5)
C6_Uint16Boundary ==
    /\ pc = "encoded"
    /\ input = JSInt(65535)
    /\ Written(writer) = <<49, 255, 255>>

\* the size prefix and the bytes of a text whose prefix is its UTF-8 byte count
SizeAndText(cps) ==
    LET bytes == Utf8Encode(cps)
        n == Len(bytes)
    IN (IF n < 64 THEN <<4 * n>> ELSE <<(4 * n + 1) % 256, (4 * n + 1) \div 256>>) \o bytes

\* C9: the length prefix the encoder writes for a text is the UTF-8 byte
\* count of the text: a top-level string is header, that prefix, the bytes;
\* the first key of an object follows the header and the member count with
\* that prefix and the bytes.
C9_PrefixIsByteCount ==
    pc = "encoded" =>
        /\ input.t = "str" => Written(writer) = <<2>> \o SizeAndText(input.cps)
        /\ (input.t = "obj" /\ Defined(input.members) # <<>>) =>
              LET key == SizeAndText(Defined(input.members)[1].key)
              IN SubSeq(Written(writer), 3, 2 + Len(key)) = key

\* the bytes of a bit-packed boolean run: element i is bit (i mod 8) of byte
\* (i div 8), the unused high bits zero
PackBooleans(items) ==
    [j \in 1..((Len(items) + 7) \div 8) |->
        BitsNat([i \in 1..8 |->
            IF 8 * (j - 1) + i <= Len(items) /\ items[8 * (j - 1) + i].b THEN 1 ELSE 0])]

\* C11: an array of count booleans is written as a typed boolean array:
\* header (major 4, kind 3, boolean), the count, then ceil(count / 8) bytes
\* holding element i in bit (i mod 8) of byte (i div 8); [true, false, true]
\* has the single payload byte 0b00000101.
C11_BooleansBitPacked ==
    (pc = "encoded" /\ input \in BooleanArrays) =>
        Written(writer) = <<28>> \o CompressedBytes(JSInt(Len(input.items)))
                                \o PackBooleans(input.items)

----------------------------------------------------------------------------
(* Properties of decoding arbitrary buffers (SpecDecode) *)

Decoded == pc \in {"readBeve", "decodeUUID", "decodeDuration", "decodeTimestamp"}

\* C3: a decode that would read past the end of the buffer raises: whenever
\* a decoding function returns a value, its cursor is within the buffer.
C3_NoReadPastEnd ==
    (Decoded /\ result.thrown = "none") => result.cur <= buffer.length

\* a header byte of major type 7, or a number or typed-array header whose
\* kind and byte-count bits name no reader: kind 3 for a number, a byte-count
\* index over 3 (more than 8 bytes), a float of 1 or 2 bytes
Unassigned(header) ==
    LET type == header % 8
        kind == (header \div 8) % 4
        index == header \div 32
    IN \/ type = 7
       \/ type = 1 /\ (kind = 3 \/ index > 3 \/ (kind = 0 /\ index < 2))
       \/ type = 4 /\ kind # 3 /\ (index > 3 \/ (kind = 0 /\ index < 2))

\* C4: decoding a header byte of major type 7 or of an unassigned
\* sub-field combination raises; no value is returned for it.
C4_UnassignedRaises ==
    (pc = "readBeve" /\ Unassigned(Byte(buffer, 0))) => result.thrown # "none"

\* C10: decoding an object whose header selects signed or unsigned integer
\* keys raises, whatever the declared member count.
C10_IntegerKeysRaise ==
    (pc = "readBeve" /\ Byte(buffer, 0) % 8 = 3 /\ (Byte(buffer, 0) \div 8) % 4 \in {1, 2}) =>
        result.thrown # "none"

\* C14: the decoder is representation-agnostic: the number 5 encoded at any
\* kind and width it has a reader for decodes, and all those decodes give
\* one and the same value.
C14_RepresentationAgnostic ==
    (pc = "readBeve" /\ buffer.ab \in EncodingsOfFive) =>
        /\ result.thrown = "none"
        /\ \A e \in EncodingsOfFive : readBeve(View(e)).val = result.val

\* C20: the header byte 0x06 (extension ID 0) is a value without payload:
\* decoding it succeeds and consumes exactly one byte.
C20_DelimiterIsOneByte ==
    (pc = "readBeve" /\ Byte(buffer, 0) = createExtensionHeader(FIELD_INDEX)) =>
        /\ result.thrown = "none"
        /\ result.cur = 1

----------------------------------------------------------------------------
(* Properties of the extensions (SpecExt) *)

\* two arrays of objects equal field for field: as many objects, each with
\* the same keys and value-equal values under each key
SameRows(a, b) ==
    /\ a.t = "arr" /\ b.t = "arr"
    /\ Len(a.items) = Len(b.items)
    /\ \A i \in 1..Len(a.items) :
          /\ a.items[i].t = "obj" /\ b.items[i].t = "obj"
          /\ {m.key : m \in {a.items[i].members[j] : j \in 1..Len(a.items[i].members)}}
               = {m.key : m \in {b.items[i].members[j] : j \in 1..Len(b.items[i].members)}}
          /\ \A j \in 1..Len(a.items[i].members) :
                ValueEq(a.items[i].members[j].val,
                        GetField(b.items[i], a.items[i].members[j].key))

\* readBeve(writeBeve(data))
GenericRoundTrip(data) == readBeve(View(Written(writeBeve(data))))

\* C12: for an array of one or more objects of one sorted key set, decoding
\* its typed-object-array encoding gives, field for field, what decoding its
\* generic encoding gives (wherever the generic encoding and decoding work).
C12_TypedEqualsGeneric ==
    (input.t = "arr" /\ isTypedObjectArray(input)
        /\ writeBeve(input).thrown = "none" /\ GenericRoundTrip(input).thrown = "none") =>
        /\ pc # "ext_threw"
        /\ pc = "decodeTypedObjectArray" =>
              /\ result.thrown = "none"
              /\ SameRows(result.val, GenericRoundTrip(input).val)

\* C13: an encode that fails has written nothing: the Writer, fresh before
\* the call, has offset 0 and no contents after it.
C13_FailedEncodeWritesNothing ==
    pc = "ext_threw" => (writer.offset = 0 /\ writer.data = <<>>)

\* C15: decodeTimestamp on the bytes of encodeTimestamp returns the same
\* seconds, nanoseconds and timezone, for seconds of the signed 64-bit range;
\* the payload is 13 bytes without a timezone and 15 with one.
C15_TimestampRoundTrip ==
    input.t = "timestamp" =>
        /\ pc # "ext_threw"
        /\ pc \in {"ext_encoded", "decodeTimestamp"} =>
              buffer.length = 1 + (IF input.timezoneOffset = Null THEN 13 ELSE 15)
        /\ pc = "decodeTimestamp" =>
              /\ result.thrown = "none"
              /\ result.val = input
              /\ result.cur = buffer.length

\* C16: encodeDuration writes the header, the seconds as 8 signed
\* little-endian bytes and the nanoseconds as 4 bytes, for seconds of the
\* signed 64-bit range, and decodeDuration on them returns the duration.
C16_DurationRoundTrip ==
    input.t = "duration" =>
        /\ pc # "ext_threw"
        /\ pc \in {"ext_encoded", "decodeDuration"} =>
              buffer.ab = <<createExtensionHeader(DURATION)>>
                          \o BytesOf(TwosComplement(input.seconds, 64), 8)
                          \o BytesOf(Mag(input.nanoseconds), 4)
        /\ pc = "decodeDuration" =>
              /\ result.thrown = "none"
              /\ result.val = input

\* 0 <= n <= 999999999
NanosInRange(n) ==
    /\ IsInteger(n)
    /\ ~IsNegative(n)
    /\ Len(Mag(n)) <= 30
    /\ BitsNat(Mag(n)) <= 999999999

\* C17: the nanoseconds of every timestamp and duration that dateToTimestamp,
\* addToTimestamp and the decoders return lie in [0, 999999999].
C17_NanosInRange ==
    (pc \in {"dateToTimestamp", "addToTimestamp", "decodeTimestamp", "decodeDuration"}
        /\ result.thrown = "none") =>
        NanosInRange(result.val.nanoseconds)

\* C18: decodeUUID on the bytes of encodeUUID returns the same 16 bytes and
\* the same version, having read the 17 bytes after the header.
C18_UuidRoundTrip ==
    input.t = "uuid" =>
        /\ pc # "ext_threw"
        /\ pc = "decodeUUID" =>
              /\ result.thrown = "none"
              /\ result.val = input
              /\ result.cur = 18

\* 550e8400-e29b-41d4-a716-446655440000 of version 4, encoded and decoded
C18_SpecInstanceDecoded ==
    /\ pc = "decodeUUID"
    /\ input = Uuid(JSInt(4), UuidBytes)
    /\ Len(buffer.ab) = 18
    /\ result.val.bytes = UuidBytes
    /\ result.val.version = JSInt(4)

\* C19: a UUID whose version byte differs from the version nibble of byte 6
\* is not decoded as if it were consistent: the decode raises, or what it
\* returns is not the plain {version, bytes}.
C19_VersionMismatchFlagged ==
    (pc = "decodeUUID" /\ input.t = "uuid"
        /\ IntOf(input.version) # getUUIDVersion(input.bytes)) =>
        \/ result.thrown # "none"
        \/ result.val # Uuid(input.version, input.bytes)

----------------------------------------------------------------------------
(* Properties of numbers and of views (Spec) *)

\* C26: negative zero round-trips with its sign: readBeve(writeBeve(-0)) is
\* the number -0, not +0.
C26_NegativeZeroKeepsSign ==
    (pc = "decoded" /\ input = JSNeg(<<>>)) =>
        /\ result.thrown = "none"
        /\ result.val = JSNeg(<<>>)

\* Number.MIN_SAFE_INTEGER <= v <= Number.MAX_SAFE_INTEGER for an integral v
IsSafeInteger(v) == IsInteger(v) /\ Len(Mag(v)) <= 53

\* C27: every safe integer, those outside the 32-bit range included, is
\* encoded without an exception and decodes to a number strictly equal to
\* it: a number, not a bigint, of the same value.
C27_SafeIntegersStrictlyEqual ==
    (IsSafeInteger(input) /\ input # JSNeg(<<>>)) =>
        /\ pc # "encode_threw"
        /\ pc = "decoded" =>
              /\ result.thrown = "none"
              /\ result.val.t = "num"
              /\ result.val = input

\* C30: decoding a view at a non-zero byteOffset inside a larger ArrayBuffer
\* gives what decoding a fresh copy of the view's bytes gives.
C30_ViewDecodesAsCopy ==
    pc = "view" => result = readBeve(View(SubBytes(buffer, 0, buffer.length)))

----------------------------------------------------------------------------
(* Properties of the Writer (SpecWriter) *)

RECURSIVE Concat(_)
Concat(chunks) == IF chunks = <<>> THEN <<>> ELSE Head(chunks) \o Concat(Tail(chunks))

\* C22: after any sequence of appends the bytes an encode returns are the
\* bytes appended, in order and nothing else: the buffer is as long as what
\* was written at least, no append fails for want of room, growth keeps
\* the bytes written before it, and the slice returned ends at offset.
C22_WrittenIsAppended ==
    /\ writer.offset <= writer.capacity
    /\ writer.offset = Len(Concat(input.chunks))
    /\ Written(writer) = Concat(input.chunks)
    /\ pc = "finished" => (buffer.ab = Concat(input.chunks) /\ buffer.byteOffset = 0)

\* a Writer made with room for one byte that grew more than once and
\* returned fewer bytes than it has room for
C22_GrownAndFinished ==
    /\ pc = "finished"
    /\ input.size = 1
    /\ Len(input.chunks) = MaxAppends
    /\ buffer.length >= 16
    /\ writer.capacity > buffer.length

----------------------------------------------------------------------------
(* Properties of the backend selection (SpecBackend) *)

\* the marshal and unmarshal calls that have returned
Returned == {i \in 1..Len(calls) : calls[i].state = "done"
                                    /\ calls[i].op \in {"marshal", "unmarshal"}}

\* the loads of the WASM module that were started
LoadsStarted == Cardinality({i \in 1..Len(gets) : gets[i].why = "load"})

C23_FallsBackToTypeScript ==
    \A i \in Returned :
        /\ calls[i].served \in {"WASM", "TypeScript"}
        /\ calls[i].outcome # "data" =>
              /\ calls[i].served = "TypeScript"
              /\ ResultOf(calls[i]) = TsResult(calls[i].op, calls[i].data)
        /\ ((~hasWasmSupport \/ ~isNode) /\ ~calls[i].disabled) =>
              calls[i].outcome = "none"

\* a marshal whose WASM call returned an error has returned the bytes of
\* writeBeve
C23_FellBackAfterError ==
    \E i \in Returned :
        /\ calls[i].op = "marshal"
        /\ calls[i].outcome = "error"
        /\ ResultOf(calls[i]) = [thrown |-> "none", val |-> Bin(<<17, 42>>)]

\* C24: the module load is started at most once by initWasm, marshal,
\* unmarshal, marshalSync and unmarshalSync; the calls that wait while it
\* runs wait for the one promise of initWasm; and with a module cached
\* initWasm() finds nothing to change (wasmInitialized is set already and
\* no promise is kept).
C24_LoadedOnce ==
    /\ ~wasmDisabled => LoadsStarted <= 1
    /\ \A i \in 1..Len(calls) :
          (calls[i].state = "awaiting" /\ calls[i].op # "getWasmModule"
              /\ calls[i].wait # 0 /\ inits[calls[i].wait].state = "pending") =>
              calls[i].wait = wasmInitPromise
    /\ cachedWasmModule # "null" => (wasmInitialized /\ wasmInitPromise = 0)

\* a marshal and an unmarshal that waited for the load started at import
\* have both returned, served by the module that one load gave
C24_SharedLoad ==
    /\ ~wasmDisabled
    /\ LoadsStarted = 1
    /\ cachedWasmModule = "module"
    /\ Len(calls) = 2
    /\ Returned = {1, 2}
    /\ calls[1].wait = 1 /\ calls[2].wait = 1
    /\ calls[1].op # calls[2].op
    /\ calls[1].served = "WASM" /\ calls[2].served = "WASM"

\* C25: a marshal or unmarshal call made after disableWasm() returned is
\* served by the TypeScript codec without a call into the WASM module.
C25_DisabledMeansTypeScript ==
    \A i \in Returned :
        calls[i].disabled => (calls[i].served = "TypeScript" /\ calls[i].outcome = "none")

\* disableWasm() ran while the load started at import was in flight, the
\* load ended well afterwards and its module was cached, and a marshal made
\* after disableWasm() has returned
C25_DisabledDuringLoad ==
    /\ wasmDisabled
    /\ cachedWasmModule = "module"
    /\ gets[1].why = "load" /\ inits[1].state = "resolved"
    /\ \E i \in Returned : calls[i].disabled /\ calls[i].op = "marshal"

\* C28: a getWasmModule() that resolved to null ran without WebAssembly
\* support, or a load has failed.
C28_NullOnlyOnFailure ==
    \A i \in 1..Len(gets) :
        (gets[i].state = "resolved" /\ gets[i].value = "null") =>
            \/ ~hasWasmSupport
            \/ \E j \in 1..Len(gets) : gets[j].failed

\* C29: getImplementationInfo().implementation is 'WASM' only when WASM is
\* not disabled and a module is cached, or is about to be cached by the
\* initWasm() in flight; after disableWasm() it is 'TypeScript'.
C29_InfoNamesBackend ==
    /\ getImplementationInfo = "WASM" =>
          (~wasmDisabled /\ (cachedWasmModule # "null" \/ wasmInitPromise # 0))
    /\ wasmDisabled => getImplementationInfo = "TypeScript"

====
